---- MODULE Spec2Model ----
(***************************************************************************)
(* The resource cleanup Lambda (terraform/aws-cleanup/cleanup.py) as a     *)
(* state machine over the provider's backing state, followed by the        *)
(* resource scheduler (modules/scheduling/scheduler.py) and the cost       *)
(* optimizer (modules/monitoring/optimizer.py).                            *)
(*                                                                         *)
(* Strings the code inspects character by character (names, ids, tag keys, *)
(* the comma-separated whitelist variables) are sequences of one-character *)
(* strings.  Money is in cents.  A timestamp is carried as the whole-day   *)
(* age that `(now - create_time).days` yields for it on the day of the     *)
(* sweep.                                                                  *)
(***************************************************************************)
EXTENDS Integers, Sequences, FiniteSets, TLC

VARIABLES
    cfg,          \* the module-level configuration read from the environment
    resources,    \* the provider's backing state: a sequence of resource records
    failing,      \* the provider calls <<operation, argument>> that raise
    pc,           \* position of handler(): "idle", a kind key, "notify", "return", "raised"
    summary,      \* cleanup_summary of the invocation in progress
    calls,        \* the provider calls of the invocation, in order: <<operation, argument, items>>
    outbox,       \* sns.publish calls accepted by the provider
    invocations,  \* number of invocations started
    started,      \* the backing state when the invocation in progress began
    pending,      \* invocations the event source will still make
    returned,     \* results of finished invocations, with the backing state around them
    fleet,        \* what the scheduler acts on: EC2 instances, databases, Auto Scaling groups
    sched,        \* the scheduler Lambda: its environment, its position, its results
    optim         \* the cost optimizer Lambda: what the provider answers it, its position, its report

vars == <<cfg, resources, failing, pc, summary, calls, outbox, invocations, started, pending,
          returned, fleet, sched, optim>>

----------------------------------------------------------------------------
(* Bounds of the model *)

MaxRecords == 2
MaxFaults == 2
MaxInvocations == 2
MaxVersions == 4
MaxEnabled == 3
MaxImages == 16

----------------------------------------------------------------------------
(* Configuration *)

AGE_THRESHOLD_DAYS == 30

DRY_RUN == cfg.DRY_RUN
SNS_TOPIC_ARN == cfg.SNS_TOPIC_ARN

\* str.split(','): one more piece than there are commas, empty pieces kept
RECURSIVE SplitAt(_, _, _)
SplitAt(s, cur, out) ==
    IF s = <<>> THEN Append(out, cur)
    ELSE IF Head(s) = "," THEN SplitAt(Tail(s), <<>>, Append(out, cur))
    ELSE SplitAt(Tail(s), Append(cur, Head(s)), out)

split(s) == SplitAt(s, <<>>, <<>>)

WHITELIST_TAGS == split(cfg.WHITELIST_TAGS)
WHITELIST_PREFIXES == split(cfg.WHITELIST_PREFIXES)

Kinds == <<"ebs_volumes", "ebs_snapshots", "elastic_ips", "load_balancers",
           "nat_gateways", "rds_snapshots", "ami_images", "ecr_images",
           "cloudwatch_logs", "s3_buckets", "security_groups", "lambda_versions">>

KindSet == {Kinds[i] : i \in DOMAIN Kinds}

\* every kind handler runs, whatever its flag
CLEAN_ignored(kind) == kind \in KindSet

CLEAN(kind) == kind \in cfg.CLEAN

\* unit prices, in cents
VolumeCentsPerGB == 10
SnapshotCentsPerGB == 5
EipCents == 360
LoadBalancerCents == 2250
NatCents == 4500
RdsSnapshotCents == 500
AmiCents == 200

ECR_KEEP == 10
LAMBDA_KEEP == 3
ERRORS_SHOWN == 10

----------------------------------------------------------------------------
(* Shared predicates *)

\* str.startswith
StartsWith(s, p) == Len(p) <= Len(s) /\ SubSeq(s, 1, Len(p)) = p

\* the check without the tests that a list entry is not empty
is_whitelisted_unguarded(resource_name, tags) ==
    \/ \E i \in DOMAIN WHITELIST_PREFIXES : StartsWith(resource_name, WHITELIST_PREFIXES[i])
    \/ /\ tags # {}
       /\ \E i \in DOMAIN WHITELIST_TAGS : WHITELIST_TAGS[i] \in tags

\* tags is the set of keys of the tag dict; {} stands for both None and {}
is_whitelisted(resource_name, tags) ==
    \/ \E i \in DOMAIN WHITELIST_PREFIXES :
           WHITELIST_PREFIXES[i] # <<>> /\ StartsWith(resource_name, WHITELIST_PREFIXES[i])
    \/ /\ tags # {}
       /\ \E i \in DOMAIN WHITELIST_TAGS :
              WHITELIST_TAGS[i] # <<>> /\ WHITELIST_TAGS[i] \in tags

\* create_time is [k |-> "none"] (None) or [k |-> "time", age |-> whole days]
is_old_enough(create_time) ==
    IF create_time.k = "none" THEN TRUE
    ELSE create_time.age >= AGE_THRESHOLD_DAYS

----------------------------------------------------------------------------
(* The provider, and the working state of one kind handler *)

\* escaped: the exception a kind handler lets out to handler(), <<>> when none
Env == [summary |-> summary, resources |-> resources, calls |-> calls, escaped |-> <<>>]

\* locals of a kind handler: the to-delete list, the running size, a raised exception
Begin(env) ==
    [summary |-> env.summary, resources |-> env.resources, calls |-> env.calls,
     sel |-> <<>>, total |-> 0, exc |-> <<>>, probe |-> "", used |-> {}]

Finish(st) ==
    [summary |-> st.summary, resources |-> st.resources, calls |-> st.calls,
     escaped |-> <<>>]

\* a call is <<operation, argument, items>>; items are the imageIds of a batch delete
IssueWith(st, op, arg, items) == [st EXCEPT !.calls = Append(@, <<op, arg, items>>)]

Issue(st, op, arg) == IssueWith(st, op, arg, <<>>)

Rejects(op, arg) == <<op, arg>> \in failing

Raise(st, what) == [st EXCEPT !.exc = <<what>>]

AddError(st, text, subject) ==
    [st EXCEPT !.summary.errors = Append(@, <<text, subject>>)]

Exists(st, kinds, id) ==
    \E i \in DOMAIN st.resources :
        st.resources[i].kind \in kinds /\ st.resources[i].id = id

Remove(st, kinds, id) ==
    [st EXCEPT !.resources = SelectSeq(@, LAMBDA r : ~(r.kind \in kinds /\ r.id = id))]

\* a delete/release/deregister call raises when the provider rejects it or the
\* identifier no longer exists
DeleteRaises(st, op, kinds, id) == Rejects(op, id) \/ ~Exists(st, kinds, id)

Select(st, id) == [st EXCEPT !.sel = Append(@, id)]

\* the for loop of a handler; an exception raised in the body leaves the loop
RECURSIVE Loop(_, _, _, _)
Loop(Body(_, _), seq, i, st) ==
    IF i > Len(seq) \/ st.exc # <<>> THEN st
    ELSE Loop(Body, seq, i + 1, Body(seq[i], st))

Listed(st, kinds) == SelectSeq(st.resources, LAMBDA r : r.kind \in kinds)

SetCount(d, key, n) == [k \in DOMAIN d \cup {key} |-> IF k = key THEN n ELSE d[k]]

\* the count of the deletes but one
DeletedCountButOne(n) == IF ~DRY_RUN /\ n > 0 THEN n - 1 ELSE 0

DeletedCount(n) == IF ~DRY_RUN THEN n ELSE 0

\* found counts what is left after the failed deletes
TallySurvivors(st, key, n, cents) ==
    LET failed == Len(st.summary.errors)
    IN [st EXCEPT !.summary.resources_found = SetCount(@, key, IF n > failed THEN n - failed ELSE 0),
                  !.summary.resources_deleted = SetCount(@, key, DeletedCount(n)),
                  !.summary.estimated_monthly_savings = @ + cents]

\* the savings are added only for what an active sweep deleted
TallyDeleted(st, key, n, cents) ==
    [st EXCEPT !.summary.resources_found = SetCount(@, key, n),
               !.summary.resources_deleted = SetCount(@, key, DeletedCount(n)),
               !.summary.estimated_monthly_savings = @ + (IF ~DRY_RUN THEN cents ELSE 0)]

\* the savings are assigned, not added
TallyAssigning(st, key, n, cents) ==
    [st EXCEPT !.summary.resources_found = SetCount(@, key, n),
               !.summary.resources_deleted = SetCount(@, key, DeletedCount(n)),
               !.summary.estimated_monthly_savings = cents]

\* the three lines that close a handler's try block
Tally(st, key, n, cents) ==
    [st EXCEPT !.summary.resources_found = SetCount(@, key, n),
               !.summary.resources_deleted = SetCount(@, key, DeletedCount(n)),
               !.summary.estimated_monthly_savings = @ + cents]

Uncaught(st, key, n, cents, text) ==
    IF st.exc # <<>> THEN [Finish(st) EXCEPT !.escaped = st.exc]
    ELSE Finish(Tally(st, key, n, cents))

\* the counts are written before the exception is recorded
CloseCounting(st, key, n, cents, text) ==
    IF st.exc # <<>> THEN Finish(AddError(Tally(st, key, n, cents), text, st.exc))
    ELSE Finish(Tally(st, key, n, cents))

\* the handler's `except Exception as e`
Close(st, key, n, cents, text) ==
    IF st.exc # <<>> THEN Finish(AddError(st, text, st.exc))
    ELSE Finish(Tally(st, key, n, cents))

----------------------------------------------------------------------------
(* Kind handlers *)

\* the body without the dry-run test around the delete
ebs_volumes_body_deleting(volume, st) ==
    IF is_whitelisted(volume.id, volume.tags) THEN st
    ELSE IF volume.ts.k = "absent" THEN Raise(st, "KeyError CreateTime")
    ELSE IF ~is_old_enough(volume.ts) THEN st
    ELSE LET s1 == [Select(st, volume.id) EXCEPT !.total = @ + volume.size]
             s2 == Issue(s1, "delete_volume", volume.id)
         IN IF DeleteRaises(s2, "delete_volume", {"volume"}, volume.id)
            THEN AddError(s2, "Failed to delete volume", volume.id)
            ELSE Remove(s2, {"volume"}, volume.id)

ebs_volumes_body(volume, st) ==
    IF is_whitelisted(volume.id, volume.tags) THEN st
    ELSE IF volume.ts.k = "absent" THEN Raise(st, "KeyError CreateTime")
    ELSE IF ~is_old_enough(volume.ts) THEN st
    ELSE LET s1 == [Select(st, volume.id) EXCEPT !.total = @ + volume.size]
             s2 == Issue(s1, "delete_volume", volume.id)
         IN IF DRY_RUN THEN s1
            ELSE IF DeleteRaises(s2, "delete_volume", {"volume"}, volume.id)
                 THEN AddError(s2, "Failed to delete volume", volume.id)
                 ELSE Remove(s2, {"volume"}, volume.id)

cleanup_ebs_volumes(env) ==
    LET s0 == Issue(Begin(env), "describe_volumes", <<>>)
        \* Filters: status = available
        Volumes == SelectSeq(s0.resources, LAMBDA r : r.kind = "volume" /\ ~r.busy)
        s1 == IF Rejects("describe_volumes", <<>>) THEN Raise(s0, "describe_volumes")
              ELSE Loop(ebs_volumes_body, Volumes, 1, s0)
    IN Close(s1, "ebs_volumes", Len(s1.sel), s1.total * VolumeCentsPerGB,
             "EBS volume cleanup error")

\* the body without the dry-run test around the delete
ebs_snapshots_body_deleting(snapshot, st) ==
    IF snapshot.busy THEN st
    ELSE IF is_whitelisted(snapshot.id, snapshot.tags) THEN st
    ELSE IF snapshot.ts.k = "absent" THEN Raise(st, "KeyError StartTime")
    ELSE IF ~is_old_enough(snapshot.ts) THEN st
    ELSE LET s1 == [Select(st, snapshot.id) EXCEPT !.total = @ + snapshot.size]
             s2 == Issue(s1, "delete_snapshot", snapshot.id)
         IN IF DeleteRaises(s2, "delete_snapshot", {"snapshot"}, snapshot.id)
            THEN AddError(s2, "Failed to delete snapshot", snapshot.id)
            ELSE Remove(s2, {"snapshot"}, snapshot.id)

ebs_snapshots_body(snapshot, st) ==
    IF snapshot.busy THEN st        \* Description starts with 'Created by CreateImage'
    ELSE IF is_whitelisted(snapshot.id, snapshot.tags) THEN st
    ELSE IF snapshot.ts.k = "absent" THEN Raise(st, "KeyError StartTime")
    ELSE IF ~is_old_enough(snapshot.ts) THEN st
    ELSE LET s1 == [Select(st, snapshot.id) EXCEPT !.total = @ + snapshot.size]
             s2 == Issue(s1, "delete_snapshot", snapshot.id)
         IN IF DRY_RUN THEN s1
            ELSE IF DeleteRaises(s2, "delete_snapshot", {"snapshot"}, snapshot.id)
                 THEN AddError(s2, "Failed to delete snapshot", snapshot.id)
                 ELSE Remove(s2, {"snapshot"}, snapshot.id)

cleanup_ebs_snapshots(env) ==
    LET s0 == Issue(Begin(env), "describe_snapshots", <<>>)
        s1 == IF Rejects("describe_snapshots", <<>>) THEN Raise(s0, "describe_snapshots")
              ELSE Loop(ebs_snapshots_body, Listed(s0, {"snapshot"}), 1, s0)
    IN Close(s1, "ebs_snapshots", Len(s1.sel), s1.total * SnapshotCentsPerGB,
             "EBS snapshot cleanup error")

\* eip.id is the AllocationId (<<>> when there is none), eip.name the PublicIp
\* the body without the association test
elastic_ips_body_associated(eip, st) ==
    IF is_whitelisted(IF eip.name # <<>> THEN eip.name ELSE eip.id, eip.tags) THEN st
    ELSE LET s1 == Select(st, IF eip.id # <<>> THEN eip.id ELSE eip.name)
             s2 == Issue(s1, "release_address", IF eip.id # <<>> THEN eip.id ELSE eip.name)
         IN IF DRY_RUN THEN s1
            ELSE IF \/ Rejects("release_address", IF eip.id # <<>> THEN eip.id ELSE eip.name)
                    \/ ~\E i \in DOMAIN s2.resources :
                           s2.resources[i].kind = "address" /\ s2.resources[i].name = eip.name
                 THEN AddError(s2, "Failed to release EIP", eip.name)
                 ELSE [s2 EXCEPT !.resources =
                          SelectSeq(@, LAMBDA r : ~(r.kind = "address" /\ r.name = eip.name))]

elastic_ips_body(eip, st) ==
    IF eip.busy THEN st             \* 'InstanceId' in eip or 'NetworkInterfaceId' in eip
    ELSE IF is_whitelisted(IF eip.name # <<>> THEN eip.name ELSE eip.id, eip.tags) THEN st
    ELSE LET s1 == Select(st, IF eip.id # <<>> THEN eip.id ELSE eip.name)
             s2 == Issue(s1, "release_address", IF eip.id # <<>> THEN eip.id ELSE eip.name)
         IN IF DRY_RUN THEN s1
            ELSE IF \/ Rejects("release_address", IF eip.id # <<>> THEN eip.id ELSE eip.name)
                    \/ ~\E i \in DOMAIN s2.resources :
                           s2.resources[i].kind = "address" /\ s2.resources[i].name = eip.name
                 THEN AddError(s2, "Failed to release EIP", eip.name)
                 ELSE [s2 EXCEPT !.resources =
                          SelectSeq(@, LAMBDA r : ~(r.kind = "address" /\ r.name = eip.name))]

cleanup_elastic_ips(env) ==
    LET s0 == Issue(Begin(env), "describe_addresses", <<>>)
        s1 == IF Rejects("describe_addresses", <<>>) THEN Raise(s0, "describe_addresses")
              ELSE Loop(elastic_ips_body, Listed(s0, {"address"}), 1, s0)
    IN Close(s1, "elastic_ips", Len(s1.sel), Len(s1.sel) * EipCents,
             "Elastic IP cleanup error")

\* the scan of one load balancer's target groups: probe becomes "targets", "none"
\* or "raised" (the bare except)
\* the scan that looks for a target reporting healthy
RECURSIVE target_scan_healthy(_, _, _)
target_scan_healthy(tgs, i, st) ==
    IF i > Len(tgs) THEN [st EXCEPT !.probe = "none"]
    ELSE LET s1 == Issue(st, "describe_target_health", tgs[i].id)
         IN IF Rejects("describe_target_health", tgs[i].id) THEN [s1 EXCEPT !.probe = "raised"]
            ELSE IF tgs[i].healthy > 0 THEN [s1 EXCEPT !.probe = "targets"]
            ELSE target_scan_healthy(tgs, i + 1, s1)

RECURSIVE target_scan(_, _, _)
target_scan(tgs, i, st) ==
    IF i > Len(tgs) THEN [st EXCEPT !.probe = "none"]
    ELSE LET s1 == Issue(st, "describe_target_health", tgs[i].id)
         IN IF Rejects("describe_target_health", tgs[i].id) THEN [s1 EXCEPT !.probe = "raised"]
            ELSE IF tgs[i].n > 0 THEN [s1 EXCEPT !.probe = "targets"]
            ELSE target_scan(tgs, i + 1, s1)

\* the body without the try around the target-group calls
load_balancers_body_raising(lb, st) ==
    IF is_whitelisted(lb.name, {}) THEN st
    ELSE LET s0 == Issue(st, "describe_target_groups", lb.id)
             s1 == IF Rejects("describe_target_groups", lb.id)
                   THEN [s0 EXCEPT !.probe = "raised"]
                   ELSE target_scan(lb.items, 1, s0)
             s2 == Select(s1, lb.id)
             s3 == Issue(s2, "delete_load_balancer", lb.id)
         IN IF s1.probe = "raised" THEN Raise(s1, "describe_target_groups")
            ELSE IF s1.probe # "none" THEN s1
            ELSE IF lb.ts.k = "absent" THEN Raise(s1, "KeyError CreatedTime")
            ELSE IF ~is_old_enough(lb.ts) THEN s1
            ELSE IF DRY_RUN THEN s2
            ELSE IF DeleteRaises(s3, "delete_load_balancer", {"lb"}, lb.id)
                 THEN AddError(s3, "Failed to delete LB", lb.name)
                 ELSE Remove(s3, {"lb"}, lb.id)

load_balancers_body(lb, st) ==
    IF is_whitelisted(lb.name, {}) THEN st
    ELSE LET s0 == Issue(st, "describe_target_groups", lb.id)
             s1 == IF Rejects("describe_target_groups", lb.id)
                   THEN [s0 EXCEPT !.probe = "raised"]
                   ELSE target_scan(lb.items, 1, s0)
             s2 == Select(s1, lb.id)
             s3 == Issue(s2, "delete_load_balancer", lb.id)
         IN IF s1.probe # "none" THEN s1
            ELSE IF lb.ts.k = "absent" THEN Raise(s1, "KeyError CreatedTime")
            ELSE IF ~is_old_enough(lb.ts) THEN s1
            ELSE IF DRY_RUN THEN s2
            ELSE IF DeleteRaises(s3, "delete_load_balancer", {"lb"}, lb.id)
                 THEN AddError(s3, "Failed to delete LB", lb.name)
                 ELSE Remove(s3, {"lb"}, lb.id)

cleanup_load_balancers(env) ==
    LET s0 == Issue(Begin(env), "describe_load_balancers", <<>>)
        s1 == IF Rejects("describe_load_balancers", <<>>)
              THEN Raise(s0, "describe_load_balancers")
              ELSE Loop(load_balancers_body, Listed(s0, {"lb"}), 1, s0)
    IN Close(s1, "load_balancers", Len(s1.sel), Len(s1.sel) * LoadBalancerCents,
             "Load balancer cleanup error")

\* the body without the try around the delete: a failed delete leaves the loop
nat_gateways_body_raising(nat, st) ==
    IF is_whitelisted(nat.id, nat.tags) THEN st
    ELSE IF nat.ts.k = "absent" THEN Raise(st, "KeyError CreateTime")
    ELSE IF ~is_old_enough(nat.ts) THEN st
    ELSE LET s1 == Select(st, nat.id)
             s2 == Issue(s1, "delete_nat_gateway", nat.id)
         IN IF DRY_RUN THEN s1
            ELSE IF DeleteRaises(s2, "delete_nat_gateway", {"nat"}, nat.id)
                 THEN Raise(s2, "delete_nat_gateway")
                 ELSE Remove(s2, {"nat"}, nat.id)

nat_gateways_body(nat, st) ==
    IF is_whitelisted(nat.id, nat.tags) THEN st
    ELSE IF nat.ts.k = "absent" THEN Raise(st, "KeyError CreateTime")
    ELSE IF ~is_old_enough(nat.ts) THEN st
    ELSE LET s1 == Select(st, nat.id)
             s2 == Issue(s1, "delete_nat_gateway", nat.id)
         IN IF DRY_RUN THEN s1
            ELSE IF DeleteRaises(s2, "delete_nat_gateway", {"nat"}, nat.id)
                 THEN AddError(s2, "Failed to delete NAT", nat.id)
                 ELSE Remove(s2, {"nat"}, nat.id)

cleanup_nat_gateways(env) ==
    LET s0 == Issue(Begin(env), "describe_nat_gateways", <<>>)
        \* Filter: state = available
        NatGateways == SelectSeq(s0.resources, LAMBDA r : r.kind = "nat" /\ ~r.busy)
        s1 == IF Rejects("describe_nat_gateways", <<>>) THEN Raise(s0, "describe_nat_gateways")
              ELSE Loop(nat_gateways_body, NatGateways, 1, s0)
    IN Close(s1, "nat_gateways", Len(s1.sel), Len(s1.sel) * NatCents,
             "NAT gateway cleanup error")

rds_db_body(snapshot, st) ==
    IF is_whitelisted(snapshot.id, {}) THEN st
    ELSE IF snapshot.ts.k = "absent" THEN Raise(st, "KeyError SnapshotCreateTime")
    ELSE IF ~is_old_enough(snapshot.ts) THEN st
    ELSE LET s1 == Select(st, snapshot.id)
             s2 == Issue(s1, "delete_db_snapshot", snapshot.id)
         IN IF DRY_RUN THEN s1
            ELSE IF DeleteRaises(s2, "delete_db_snapshot", {"dbsnap"}, snapshot.id)
                 THEN AddError(s2, "Failed to delete RDS snapshot", snapshot.id)
                 ELSE Remove(s2, {"dbsnap"}, snapshot.id)

rds_cluster_body(snapshot, st) ==
    IF is_whitelisted(snapshot.id, {}) THEN st
    ELSE IF snapshot.ts.k = "absent" THEN Raise(st, "KeyError SnapshotCreateTime")
    ELSE IF ~is_old_enough(snapshot.ts) THEN st
    ELSE LET s1 == Select(st, snapshot.id)
             s2 == Issue(s1, "delete_db_cluster_snapshot", snapshot.id)
         IN IF DRY_RUN THEN s1
            ELSE IF DeleteRaises(s2, "delete_db_cluster_snapshot", {"clustersnap"}, snapshot.id)
                 THEN AddError(s2, "Failed to delete cluster snapshot", snapshot.id)
                 ELSE Remove(s2, {"clustersnap"}, snapshot.id)

cleanup_rds_snapshots(env) ==
    LET s0 == Issue(Begin(env), "describe_db_snapshots", <<>>)
        s1 == IF Rejects("describe_db_snapshots", <<>>) THEN Raise(s0, "describe_db_snapshots")
              ELSE Loop(rds_db_body, Listed(s0, {"dbsnap"}), 1, s0)
        s2 == Issue(s1, "describe_db_cluster_snapshots", <<>>)
        s3 == IF s1.exc # <<>> THEN s1
              ELSE IF Rejects("describe_db_cluster_snapshots", <<>>)
                   THEN Raise(s2, "describe_db_cluster_snapshots")
                   ELSE Loop(rds_cluster_body, Listed(s2, {"clustersnap"}), 1, s2)
    IN Close(s3, "rds_snapshots", Len(s3.sel), Len(s3.sel) * RdsSnapshotCents,
             "RDS snapshot cleanup error")

\* the deletes of the backing snapshots given up at the first that fails
RECURSIVE ami_snapshots_stopping(_, _, _)
ami_snapshots_stopping(refs, i, st) ==
    IF i > Len(refs) THEN st
    ELSE LET s1 == Issue(st, "delete_snapshot", refs[i])
         IN IF DeleteRaises(s1, "delete_snapshot", {"snapshot"}, refs[i]) THEN s1
            ELSE ami_snapshots_stopping(refs, i + 1, Remove(s1, {"snapshot"}, refs[i]))

\* the best-effort deletes of a deregistered image's backing snapshots
RECURSIVE ami_snapshots(_, _, _)
ami_snapshots(refs, i, st) ==
    IF i > Len(refs) THEN st
    ELSE LET s1 == Issue(st, "delete_snapshot", refs[i])
         IN ami_snapshots(refs, i + 1,
                IF DeleteRaises(s1, "delete_snapshot", {"snapshot"}, refs[i]) THEN s1
                ELSE Remove(s1, {"snapshot"}, refs[i]))

\* image.name is image.get('Name', ''); image.refs the SnapshotIds of its mappings
ami_images_body(image, st) ==
    IF is_whitelisted(image.name, image.tags) THEN st
    ELSE IF image.ts.k = "absent" THEN Raise(st, "KeyError CreationDate")
    ELSE IF image.ts.k = "none" THEN Raise(st, "AttributeError replace")
    ELSE IF ~is_old_enough(image.ts) THEN st
    ELSE LET s1 == Select(st, image.id)
             s2 == Issue(s1, "deregister_image", image.id)
         IN IF DRY_RUN THEN s1
            ELSE IF DeleteRaises(s2, "deregister_image", {"image"}, image.id)
                 THEN AddError(s2, "Failed to deregister AMI", image.id)
                 ELSE ami_snapshots(image.refs, 1, Remove(s2, {"image"}, image.id))

cleanup_ami_images(env) ==
    LET s0 == Issue(Begin(env), "describe_images", <<>>)
        s1 == IF Rejects("describe_images", <<>>) THEN Raise(s0, "describe_images")
              ELSE Loop(ami_images_body, Listed(s0, {"image"}), 1, s0)
    IN Close(s1, "ami_images", Len(s1.sel), Len(s1.sel) * AmiCents,
             "AMI cleanup error")

ProtectedTags == { <<"l", "a", "t", "e", "s", "t">>, <<"p", "r", "o", "d">>,
                   <<"p", "r", "o", "d", "u", "c", "t", "i", "o", "n">>,
                   <<"s", "t", "a", "b", "l", "e">> }

\* the items of record id of the given kind without those in gone
DropItems(st, kind, id, gone) ==
    LET old == st.resources
    IN [st EXCEPT !.resources =
           [i \in DOMAIN old |->
               IF old[i].kind = kind /\ old[i].id = id
               THEN [old[i] EXCEPT !.items = SelectSeq(@, LAMBDA it : it \notin gone)]
               ELSE old[i]]]

\* images_to_delete[:-9]
OlderImagesButNine(images) == SubSeq(images, 1, Len(images) - (ECR_KEEP - 1))

\* images_to_delete[:-10]
OlderImages(images) == SubSeq(images, 1, Len(images) - ECR_KEEP)

\* an image is [id |-> its imageTag, <<>> when it has none, n |-> its digest]
ecr_images_body(repo, st) ==
    IF is_whitelisted(repo.id, {}) THEN st
    ELSE LET s0 == Issue(st, "list_images", repo.id)
             candidates == SelectSeq(repo.items,
                               LAMBDA image : image.id # <<>> /\ image.id \notin ProtectedTags)
             images_to_delete == OlderImages(candidates)
             s1 == IssueWith(s0, "batch_delete_image", repo.id, images_to_delete)
         IN IF Rejects("list_images", repo.id)
            THEN AddError(s0, "Failed to clean ECR repo", repo.id)
            ELSE IF ~(Len(candidates) > ECR_KEEP) THEN s0
            ELSE IF DRY_RUN \/ images_to_delete = <<>>
                 THEN [s0 EXCEPT !.total = @ + Len(images_to_delete)]
            ELSE IF DeleteRaises(s1, "batch_delete_image", {"repo"}, repo.id)
                 THEN AddError(s1, "Failed to clean ECR repo", repo.id)
                 ELSE [DropItems(s1, "repo", repo.id,
                                 {images_to_delete[i] : i \in DOMAIN images_to_delete})
                          EXCEPT !.total = @ + Len(images_to_delete)]

cleanup_ecr_images(env) ==
    LET s0 == Issue(Begin(env), "describe_repositories", <<>>)
        s1 == IF Rejects("describe_repositories", <<>>) THEN Raise(s0, "describe_repositories")
              ELSE Loop(ecr_images_body, Listed(s0, {"repo"}), 1, s0)
    IN Close(s1, "ecr_images", s1.total, 0, "ECR cleanup error")

\* log_group.ts is the lastEventTimestamp; log_group.busy: it has a log stream
cloudwatch_logs_body(log_group, st) ==
    IF is_whitelisted(log_group.id, {}) THEN st
    ELSE IF log_group.ts.k = "none" THEN Raise(st, "TypeError")
    ELSE IF log_group.ts.k = "time" /\ ~is_old_enough(log_group.ts) THEN st
    ELSE LET s0 == Issue(st, "describe_log_streams", log_group.id)
             s1 == Select(s0, log_group.id)
             s2 == Issue(s1, "delete_log_group", log_group.id)
         IN IF Rejects("describe_log_streams", log_group.id)
            THEN Raise(s0, "describe_log_streams")
            ELSE IF log_group.busy THEN s0
            ELSE IF DRY_RUN THEN s1
            ELSE IF DeleteRaises(s2, "delete_log_group", {"loggroup"}, log_group.id)
                 THEN AddError(s2, "Failed to delete log group", log_group.id)
                 ELSE Remove(s2, {"loggroup"}, log_group.id)

cleanup_cloudwatch_logs(env) ==
    LET s0 == Issue(Begin(env), "describe_log_groups", <<>>)
        s1 == IF Rejects("describe_log_groups", <<>>) THEN Raise(s0, "describe_log_groups")
              ELSE Loop(cloudwatch_logs_body, Listed(s0, {"loggroup"}), 1, s0)
    IN Close(s1, "cloudwatch_logs", Len(s1.sel), 0, "CloudWatch logs cleanup error")

\* bucket.busy: 'Contents' in objects
s3_buckets_body(bucket, st) ==
    IF is_whitelisted(bucket.id, {}) THEN st
    ELSE LET s0 == Issue(st, "list_objects_v2", bucket.id)
             s1 == Select(s0, bucket.id)
             s2 == Issue(s1, "delete_bucket", bucket.id)
         IN IF Rejects("list_objects_v2", bucket.id) THEN s0
            ELSE IF bucket.busy THEN s0
            ELSE IF bucket.ts.k = "absent" THEN s0      \* KeyError, `except: continue`
            ELSE IF ~is_old_enough(bucket.ts) THEN s0
            ELSE IF DRY_RUN THEN s1
            ELSE IF DeleteRaises(s2, "delete_bucket", {"bucket"}, bucket.id)
                 THEN AddError(s2, "Failed to delete bucket", bucket.id)
                 ELSE Remove(s2, {"bucket"}, bucket.id)

cleanup_empty_s3_buckets(env) ==
    LET s0 == Issue(Begin(env), "list_buckets", <<>>)
        s1 == IF Rejects("list_buckets", <<>>) THEN Raise(s0, "list_buckets")
              ELSE Loop(s3_buckets_body, Listed(s0, {"bucket"}), 1, s0)
    IN Close(s1, "s3_buckets", Len(s1.sel), 0, "S3 cleanup error")

DefaultGroupName == <<"d", "e", "f", "a", "u", "l", "t">>

\* sg.name is the GroupName; st.used the GroupIds on network interfaces
security_groups_body(sg, st) ==
    IF sg.name = DefaultGroupName THEN st
    ELSE IF sg.id \in st.used THEN st
    ELSE IF is_whitelisted(sg.name, sg.tags) THEN st
    ELSE LET s1 == Select(st, sg.id)
             s2 == Issue(s1, "delete_security_group", sg.id)
         IN IF DRY_RUN THEN s1
            ELSE IF DeleteRaises(s2, "delete_security_group", {"sg"}, sg.id)
                 THEN AddError(s2, "Failed to delete SG", sg.id)
                 ELSE Remove(s2, {"sg"}, sg.id)

cleanup_security_groups(env) ==
    LET s0 == Issue(Begin(env), "describe_security_groups", <<>>)
        s1 == Issue(s0, "describe_network_interfaces", <<>>)
        interfaces == Listed(s1, {"eni"})
        used_sgs == UNION { {interfaces[i].refs[j] : j \in DOMAIN interfaces[i].refs} :
                            i \in DOMAIN interfaces }
        s2 == IF Rejects("describe_security_groups", <<>>)
              THEN Raise(s0, "describe_security_groups")
              ELSE IF Rejects("describe_network_interfaces", <<>>)
                   THEN Raise(s1, "describe_network_interfaces")
                   ELSE Loop(security_groups_body, Listed(s0, {"sg"}), 1,
                             [s1 EXCEPT !.used = used_sgs])
    IN Close(s2, "security_groups", Len(s2.sel), 0, "Security group cleanup error")

LatestVersion == <<"$LATEST">>

HasVersion(st, name, version) ==
    \E i \in DOMAIN st.resources :
        /\ st.resources[i].kind = "function" /\ st.resources[i].id = name
        /\ \E j \in DOMAIN st.resources[i].items : st.resources[i].items[j].id = version

\* the delete loop over versions_to_delete of one function
RECURSIVE lambda_versions_delete(_, _, _, _)
lambda_versions_delete(function, versions_to_delete, i, st) ==
    IF i > Len(versions_to_delete) THEN st
    ELSE LET version == versions_to_delete[i]
             qualified == function.id \o <<":">> \o version.id
             s1 == Issue(st, "delete_function", qualified)
             s2 == IF DRY_RUN THEN [st EXCEPT !.total = @ + 1]
                   ELSE IF Rejects("delete_function", qualified)
                           \/ ~HasVersion(s1, function.id, version.id)
                        THEN AddError(s1, "Failed to delete Lambda version", qualified)
                        ELSE [DropItems(s1, "function", function.id, {version})
                                 EXCEPT !.total = @ + 1]
         IN lambda_versions_delete(function, versions_to_delete, i + 1, s2)

\* versions['Versions'][:-2]
OlderVersionsButTwo(versions) == SubSeq(versions, 1, Len(versions) - (LAMBDA_KEEP - 1))

\* versions['Versions'][:-3]
OlderVersions(versions) == SubSeq(versions, 1, Len(versions) - LAMBDA_KEEP)

\* a version is [id |-> its Version string, n |-> its revision]
lambda_versions_body(function, st) ==
    IF is_whitelisted(function.id, {}) THEN st
    ELSE LET s0 == Issue(st, "list_versions_by_function", function.id)
             versions_to_delete == SelectSeq(OlderVersions(function.items),
                                       LAMBDA version : version.id # LatestVersion)
         IN IF Rejects("list_versions_by_function", function.id) THEN s0
            ELSE lambda_versions_delete(function, versions_to_delete, 1, s0)

cleanup_old_lambda_versions(env) ==
    LET s0 == Issue(Begin(env), "list_functions", <<>>)
        s1 == IF Rejects("list_functions", <<>>) THEN Raise(s0, "list_functions")
              ELSE Loop(lambda_versions_body, Listed(s0, {"function"}), 1, s0)
    IN Close(s1, "lambda_versions", s1.total, 0, "Lambda cleanup error")

----------------------------------------------------------------------------
(* Notification *)

\* the non-zero entries of a count dict, in insertion order (the handlers' order)
NonZero(d) ==
    LET present == SelectSeq(Kinds, LAMBDA k : k \in DOMAIN d /\ d[k] > 0)
    IN [i \in DOMAIN present |-> <<present[i], d[present[i]]>>]

\* the message with every error listed
Message_unlimited(s) ==
    [mode |-> IF s.dry_run THEN "DRY RUN" ELSE "ACTIVE CLEANUP",
     found |-> NonZero(s.resources_found),
     deleted_section |-> ~s.dry_run,
     deleted |-> IF ~s.dry_run THEN NonZero(s.resources_deleted) ELSE <<>>,
     savings |-> s.estimated_monthly_savings,
     errors |-> s.errors,
     note |-> s.dry_run]

Message(s) ==
    [mode |-> IF s.dry_run THEN "DRY RUN" ELSE "ACTIVE CLEANUP",
     found |-> NonZero(s.resources_found),
     deleted_section |-> ~s.dry_run,
     deleted |-> IF ~s.dry_run THEN NonZero(s.resources_deleted) ELSE <<>>,
     savings |-> s.estimated_monthly_savings,
     errors |-> SubSeq(s.errors, 1, IF Len(s.errors) < ERRORS_SHOWN THEN Len(s.errors)
                                    ELSE ERRORS_SHOWN),
     note |-> s.dry_run]

\* send_notification without its test of the topic
send_notification_always(s, log, box) ==
    [calls |-> Append(log, <<"publish", <<>>, <<>>>>),
     outbox |-> IF Rejects("publish", <<>>) THEN box ELSE Append(box, Message(s)),
     escaped |-> <<>>]

\* sns.publish outside a try: its exception leaves send_notification
send_notification_unguarded(s, log, box) ==
    IF ~SNS_TOPIC_ARN THEN [calls |-> log, outbox |-> box, escaped |-> <<>>]
    ELSE [calls |-> Append(log, <<"publish", <<>>, <<>>>>),
          outbox |-> IF Rejects("publish", <<>>) THEN box ELSE Append(box, Message(s)),
          escaped |-> IF Rejects("publish", <<>>) THEN <<"publish">> ELSE <<>>]

\* the effect of send_notification on the provider's call log and the topic;
\* escaped: the exception it lets out to handler(), <<>> when none
send_notification(s, log, box) ==
    IF ~SNS_TOPIC_ARN THEN [calls |-> log, outbox |-> box, escaped |-> <<>>]
    ELSE [calls |-> Append(log, <<"publish", <<>>, <<>>>>),
          outbox |-> IF Rejects("publish", <<>>) THEN box ELSE Append(box, Message(s)),
          escaped |-> <<>>]

----------------------------------------------------------------------------
(* handler(event, context) *)

\* position after the kind at position i of the sweep
After(i) == IF i < Len(Kinds) THEN Kinds[i + 1] ELSE "notify"

Invoke ==
    /\ pc = "idle"
    /\ pending > 0
    /\ pending' = pending - 1
    /\ invocations' = invocations + 1
    /\ started' = resources
    /\ summary' = [timestamp |-> invocations + 1,
                   dry_run |-> DRY_RUN,
                   resources_found |-> [k \in {} |-> 0],
                   resources_deleted |-> [k \in {} |-> 0],
                   estimated_monthly_savings |-> 0,
                   errors |-> <<>>]
    /\ calls' = <<>>
    /\ pc' = Kinds[1]
    /\ UNCHANGED <<cfg, resources, failing, outbox, returned, fleet, sched, optim>>

\* `if CLEAN_X: cleanup_x(cleanup_summary)` inside the try of handler(): an exception
\* that leaves cleanup_x is recorded by the outer except and ends the sweep
Step(i, env) ==
    /\ pc = Kinds[i]
    /\ summary' = IF env.escaped # <<>>
                  THEN [env.summary EXCEPT !.errors = Append(@, <<"", env.escaped>>)]
                  ELSE env.summary
    /\ resources' = env.resources
    /\ calls' = env.calls
    /\ pc' = IF env.escaped # <<>> THEN "notify" ELSE After(i)
    /\ UNCHANGED <<cfg, failing, outbox, invocations, started, pending, returned, fleet, sched, optim>>

EbsVolumes == Step(1, IF CLEAN("ebs_volumes") THEN cleanup_ebs_volumes(Env) ELSE Env)
EbsSnapshots == Step(2, IF CLEAN("ebs_snapshots") THEN cleanup_ebs_snapshots(Env) ELSE Env)
ElasticIps == Step(3, IF CLEAN("elastic_ips") THEN cleanup_elastic_ips(Env) ELSE Env)
LoadBalancers == Step(4, IF CLEAN("load_balancers") THEN cleanup_load_balancers(Env) ELSE Env)
NatGateways == Step(5, IF CLEAN("nat_gateways") THEN cleanup_nat_gateways(Env) ELSE Env)
RdsSnapshots == Step(6, IF CLEAN("rds_snapshots") THEN cleanup_rds_snapshots(Env) ELSE Env)
AmiImages == Step(7, IF CLEAN("ami_images") THEN cleanup_ami_images(Env) ELSE Env)
EcrImages == Step(8, IF CLEAN("ecr_images") THEN cleanup_ecr_images(Env) ELSE Env)
CloudwatchLogs == Step(9, IF CLEAN("cloudwatch_logs") THEN cleanup_cloudwatch_logs(Env) ELSE Env)
S3Buckets == Step(10, IF CLEAN("s3_buckets") THEN cleanup_empty_s3_buckets(Env) ELSE Env)
SecurityGroups == Step(11, IF CLEAN("security_groups") THEN cleanup_security_groups(Env) ELSE Env)
LambdaVersions == Step(12, IF CLEAN("lambda_versions") THEN cleanup_old_lambda_versions(Env) ELSE Env)

\* send_notification is called outside the try of handler(): an exception that
\* leaves it leaves handler() too, and the invocation ends without a result
SendNotification ==
    /\ pc = "notify"
    /\ LET sent == send_notification(summary, calls, outbox)
       IN /\ calls' = sent.calls
          /\ outbox' = sent.outbox
          /\ pc' = IF sent.escaped # <<>> THEN "raised" ELSE "return"
    /\ UNCHANGED <<cfg, resources, failing, summary, invocations, started, pending, returned,
                   fleet, sched, optim>>

Return ==
    /\ pc = "return"
    /\ returned' = Append(returned, [summary |-> summary, before |-> started,
                                     after |-> resources, calls |-> calls])
    /\ pc' = "idle"
    /\ UNCHANGED <<cfg, resources, failing, summary, calls, outbox, invocations, started, pending,
                   fleet, sched, optim>>

Next ==
    \/ Invoke
    \/ EbsVolumes \/ EbsSnapshots \/ ElasticIps \/ LoadBalancers
    \/ NatGateways \/ RdsSnapshots \/ AmiImages \/ EcrImages
    \/ CloudwatchLogs \/ S3Buckets \/ SecurityGroups \/ LambdaVersions
    \/ SendNotification
    \/ Return

----------------------------------------------------------------------------
(* The resource scheduler: scheduler.py *)

Start == <<"s", "t", "a", "r", "t">>
Stop == <<"s", "t", "o", "p">>

UpperCase == <<"A", "B", "C", "D", "E", "F", "G", "H", "I", "J", "K", "L", "M",
               "N", "O", "P", "Q", "R", "S", "T", "U", "V", "W", "X", "Y", "Z">>
LowerCase == <<"a", "b", "c", "d", "e", "f", "g", "h", "i", "j", "k", "l", "m",
               "n", "o", "p", "q", "r", "s", "t", "u", "v", "w", "x", "y", "z">>

\* str.lower
lower(s) ==
    [i \in DOMAIN s |->
        IF \E j \in DOMAIN UpperCase : UpperCase[j] = s[i]
        THEN LowerCase[CHOOSE j \in DOMAIN UpperCase : UpperCase[j] = s[i]]
        ELSE s[i]]

Digits == <<"0", "1", "2", "3", "4", "5", "6", "7", "8", "9">>

\* str(n) of a natural number
RECURSIVE str(_)
str(n) == IF n < 10 THEN <<Digits[n + 1]>> ELSE Append(str(n \div 10), Digits[(n % 10) + 1])

IsNumeral(s) == s # <<>> /\ \A i \in DOMAIN s : \E d \in DOMAIN Digits : Digits[d] = s[i]

\* int(s) of a decimal numeral
RECURSIVE int(_)
int(s) ==
    IF s = <<>> THEN 0
    ELSE 10 * int(SubSeq(s, 1, Len(s) - 1))
         + (CHOOSE d \in 0..9 : Digits[d + 1] = s[Len(s)])

DefaultDesired == 2
StartMinSize == 1

NoTag == [has |-> FALSE, value |-> <<>>]
TagOn(value) == [has |-> TRUE, value |-> value]

NoFleet == [instances |-> <<>>, dbs |-> <<>>, groups |-> <<>>]

SchedulerOff ==
    [env |-> [EC2_INSTANCES |-> <<>>, RDS_INSTANCES |-> <<>>, ASG_NAMES |-> <<>>],
     faults |-> {}, failing |-> {}, events |-> {}, pending |-> 0, pc |-> "idle",
     event |-> <<>>,
     action |-> <<>>, results |-> [ec2 |-> <<>>, rds |-> <<>>, asg |-> <<>>],
     calls |-> <<>>, before |-> NoFleet, returned |-> <<>>]

\* an entry of a result list: error is "" for a success entry
Entry(error, target, status, value) ==
    [error |-> error, target |-> target, status |-> status, value |-> value]

Fails(op, target) == <<op, target>> \in sched.failing

Find(seq, id) == { i \in DOMAIN seq : seq[i].id = id }

\* the working state of a handle_* function: the provider, the call log, the list
\* it returns
Work(f, log) == [fleet |-> f, calls |-> log, results |-> <<>>]

Call(st, op, target) == [st EXCEPT !.calls = Append(@, <<op, target>>)]

Result(st, entry) == [st EXCEPT !.results = Append(@, entry)]

\* one start_instances or stop_instances call for all the instance ids: the
\* provider answers with one state change per instance, or raises
handle_ec2_instances(instance_ids, action, st) ==
    IF instance_ids = <<>> THEN st
    ELSE LET op == IF action = Start THEN "start_instances" ELSE "stop_instances"
             s1 == Call(st, op, instance_ids)
             known == \A i \in DOMAIN instance_ids : Find(st.fleet.instances, instance_ids[i]) # {}
             now == IF action = Start THEN "running" ELSE "stopped"
         IN IF Fails(op, <<>>) \/ ~known
            THEN Result(s1, Entry(op, instance_ids, "", ""))
            ELSE [s1 EXCEPT
                    !.results = [i \in DOMAIN instance_ids |->
                        LET n == CHOOSE n \in Find(st.fleet.instances, instance_ids[i]) : TRUE
                        IN Entry("", instance_ids[i], st.fleet.instances[n].state, now)],
                    !.fleet.instances = [n \in DOMAIN @ |->
                        IF \E i \in DOMAIN instance_ids : instance_ids[i] = @[n].id
                        THEN [@[n] EXCEPT !.state = now] ELSE @[n]]]

\* the body of the loop of handle_rds_instances: a database is a cluster or an
\* instance, available or stopped; the provider rejects a start of what is
\* available and a stop of what is stopped
rds_body(db_id, action, st) ==
    LET s1 == Call(st, "describe_db_clusters", db_id)
        found == Find(st.fleet.dbs, db_id)
        is_cluster == \E n \in found : st.fleet.dbs[n].cluster
        op == IF is_cluster
              THEN (IF action = Start THEN "start_db_cluster" ELSE "stop_db_cluster")
              ELSE (IF action = Start THEN "start_db_instance" ELSE "stop_db_instance")
        was == IF action = Start THEN "stopped" ELSE "available"
        now == IF action = Start THEN "available" ELSE "stopped"
        s2 == Call(s1, op, db_id)
    IN IF Fails("describe_db_clusters", db_id)
       THEN Result(s1, Entry("describe_db_clusters", db_id, "", ""))
       ELSE IF Fails(op, db_id) \/ found = {} \/ \E n \in found : st.fleet.dbs[n].state # was
            THEN Result(s2, Entry(op, db_id, "", ""))
            ELSE [Result(s2, Entry("", db_id, IF action = Start THEN "starting" ELSE "stopping",
                                   IF is_cluster THEN "db_cluster" ELSE "db_instance"))
                    EXCEPT !.fleet.dbs = [n \in DOMAIN @ |->
                        IF n \in found THEN [@[n] EXCEPT !.state = now] ELSE @[n]]]

\* the loop that gives up at the first database that fails
RECURSIVE handle_rds_instances_giving_up(_, _, _)
handle_rds_instances_giving_up(db_identifiers, action, st) ==
    IF db_identifiers = <<>> THEN st
    ELSE LET s1 == rds_body(Head(db_identifiers), action, st)
         IN IF s1.results[Len(s1.results)].error # "" THEN s1
            ELSE handle_rds_instances_giving_up(Tail(db_identifiers), action, s1)

RECURSIVE handle_rds_instances(_, _, _)
handle_rds_instances(db_identifiers, action, st) ==
    IF db_identifiers = <<>> THEN st
    ELSE handle_rds_instances(Tail(db_identifiers), action,
                              rds_body(Head(db_identifiers), action, st))

\* update_auto_scaling_group raises when the provider rejects the call or the sizes
\* do not satisfy MinSize <= DesiredCapacity <= MaxSize
UpdateRaises(asg_name, group, min, desired) ==
    \/ Fails("update_auto_scaling_group", asg_name)
    \/ min > desired
    \/ desired > group.max

\* the start that forgets what stop saved
SavedDesiredIgnored(asg) == DefaultDesired

\* desired = 2, overridden by the first ScheduledDesiredCapacity tag
SavedDesired(asg) == IF asg.tag.has THEN int(asg.tag.value) ELSE DefaultDesired

\* the body of the loop of handle_auto_scaling_groups; a group is
\* [id, MinSize, DesiredCapacity, max, tag], tag the ScheduledDesiredCapacity tag
asg_body(asg_name, action, st) ==
    LET s1 == Call(st, "describe_auto_scaling_groups", asg_name)
        found == Find(st.fleet.groups, asg_name)
        n == CHOOSE n \in found : TRUE
        asg == st.fleet.groups[n]
        desired == SavedDesired(asg)
        s2 == Call(s1, "update_auto_scaling_group", asg_name)
        current_desired == asg.DesiredCapacity
        s3 == Call(s1, "create_or_update_tags", asg_name)
        s4 == [s3 EXCEPT !.fleet.groups[n].tag = TagOn(str(current_desired))]
        s5 == Call(s4, "update_auto_scaling_group", asg_name)
    IN IF Fails("describe_auto_scaling_groups", asg_name)
       THEN Result(s1, Entry("describe_auto_scaling_groups", asg_name, "", 0))
       ELSE IF found = {} THEN Result(s1, Entry("ASG not found", asg_name, "", 0))
       ELSE IF action = Start
            THEN IF asg.tag.has /\ ~IsNumeral(asg.tag.value)
                 THEN Result(s1, Entry("ValueError", asg_name, "", 0))
                 ELSE IF UpdateRaises(asg_name, asg, StartMinSize, desired)
                      THEN Result(s2, Entry("update_auto_scaling_group", asg_name, "", 0))
                      ELSE [Result(s2, Entry("", asg_name, "started", desired))
                              EXCEPT !.fleet.groups[n].MinSize = StartMinSize,
                                     !.fleet.groups[n].DesiredCapacity = desired]
            ELSE IF Fails("create_or_update_tags", asg_name)
                 THEN Result(s3, Entry("create_or_update_tags", asg_name, "", 0))
                 ELSE IF UpdateRaises(asg_name, asg, 0, 0)
                      THEN Result(s5, Entry("update_auto_scaling_group", asg_name, "", 0))
                      ELSE [Result(s5, Entry("", asg_name, "stopped", current_desired))
                              EXCEPT !.fleet.groups[n].MinSize = 0,
                                     !.fleet.groups[n].DesiredCapacity = 0]

RECURSIVE handle_auto_scaling_groups(_, _, _)
handle_auto_scaling_groups(asg_names, action, st) ==
    IF asg_names = <<>> THEN st
    ELSE handle_auto_scaling_groups(Tail(asg_names), action,
                                    asg_body(Head(asg_names), action, st))

\* the dispatch that compares the action field as it was sent
ActionOfCased(event) == IF event = <<>> THEN Stop ELSE event[1]

\* an event is <<>> or <<its action field>>
ActionOf(event) == lower(IF event = <<>> THEN Stop ELSE event[1])

\* handler(event, context) up to the first handle_* call; the provider calls in
\* sched.failing raise during this invocation
ScheduleInvoke ==
    /\ sched.pc = "idle"
    /\ sched.pending > 0
    /\ \E event \in sched.events, F \in sched.faults :
           sched' = [sched EXCEPT !.pending = @ - 1, !.pc = "ec2", !.event = event,
                                  !.failing = F,
                                  !.action = ActionOf(event),
                                  !.results = [ec2 |-> <<>>, rds |-> <<>>, asg |-> <<>>],
                                  !.calls = <<>>, !.before = fleet]
    /\ UNCHANGED <<cfg, resources, failing, pc, summary, calls, outbox, invocations, started,
                   pending, returned, fleet, optim>>

\* one `if targets: results[...] = handle_*(targets, action)` of handler()
ScheduleStep(at, next, key, st) ==
    /\ sched.pc = at
    /\ fleet' = st.fleet
    /\ sched' = [sched EXCEPT !.pc = next, !.calls = st.calls, !.results[key] = st.results]
    /\ UNCHANGED <<cfg, resources, failing, pc, summary, calls, outbox, invocations, started,
                   pending, returned, optim>>

HandleEc2 ==
    ScheduleStep("ec2", "rds", "ec2",
                 handle_ec2_instances(sched.env.EC2_INSTANCES, sched.action,
                                      Work(fleet, sched.calls)))

HandleRds ==
    ScheduleStep("rds", "asg", "rds",
                 handle_rds_instances(sched.env.RDS_INSTANCES, sched.action,
                                      Work(fleet, sched.calls)))

HandleAsg ==
    ScheduleStep("asg", "return", "asg",
                 handle_auto_scaling_groups(sched.env.ASG_NAMES, sched.action,
                                            Work(fleet, sched.calls)))

ScheduleReturn ==
    /\ sched.pc = "return"
    /\ sched' = [sched EXCEPT !.pc = "idle",
                              !.returned = Append(@, [event |-> sched.event,
                                                      action |-> sched.action,
                                                      failing |-> sched.failing,
                                                      results |-> sched.results,
                                                      calls |-> sched.calls,
                                                      before |-> sched.before,
                                                      after |-> fleet])]
    /\ UNCHANGED <<cfg, resources, failing, pc, summary, calls, outbox, invocations, started,
                   pending, returned, fleet, optim>>

ScheduleNext == ScheduleInvoke \/ HandleEc2 \/ HandleRds \/ HandleAsg \/ ScheduleReturn

----------------------------------------------------------------------------

(* The cost optimizer: optimizer.py *)

UnusedVolumeCentsPerGB == 10
UnusedEipCents == 360

\* what a get_* or check_* function returns when it has nothing to report
None == [type |-> "None", monthly_savings |-> 0, items |-> 0]

Opportunity(type, cents, items) == [type |-> type, monthly_savings |-> cents, items |-> items]

\* the answers of the provider: the rightsizing recommendations, the sizes of the
\* available volumes, the addresses (associated or not), the reservation and the
\* savings plans recommendations; an amount is absent or a string
NoAnswers == [rightsizing |-> <<>>, volumes |-> <<>>, addresses |-> <<>>, ri |-> <<>>, sp |-> <<>>]

NoReport == [savings_opportunities |-> <<>>, total_potential_savings |-> 0, error |-> ""]

OptimizerOff ==
    [answers |-> NoAnswers, failing |-> {}, topic |-> FALSE, pending |-> 0, pc |-> "idle",
     recommendations |-> NoReport, published |-> <<>>, returned |-> <<>>]

Amount(text) == [has |-> TRUE, text |-> text]
NoAmount == [has |-> FALSE, text |-> <<>>]

\* float(rec.get('EstimatedMonthlySavingsAmount', 0)) in cents, for amounts in
\* whole dollars; float() raises on a string that is no number
FloatRaises(amount) == amount.has /\ ~IsNumeral(amount.text)
Float(amount) == IF amount.has THEN 100 * int(amount.text) ELSE 0

RECURSIVE ModifySavings(_)
ModifySavings(recs) ==
    IF recs = <<>> THEN 0
    ELSE (IF Head(recs).type = "Modify" THEN Float(Head(recs).amount) ELSE 0)
         + ModifySavings(Tail(recs))

get_rightsizing_recommendations(o) ==
    LET recs == o.answers.rightsizing
        modify == { i \in DOMAIN recs : recs[i].type = "Modify" }
    IN IF \/ "get_rightsizing_recommendation" \in o.failing
          \/ \E i \in modify : FloatRaises(recs[i].amount)
          \/ modify = {}
       THEN None
       ELSE Opportunity("EC2 Rightsizing", ModifySavings(recs), Cardinality(modify))

RECURSIVE VolumeCost(_)
VolumeCost(sizes) ==
    IF sizes = <<>> THEN 0 ELSE Head(sizes) * UnusedVolumeCentsPerGB + VolumeCost(Tail(sizes))

Unassociated(addresses) == { i \in DOMAIN addresses : ~addresses[i] }

\* what has been added to unused_resources when the try block is left, by its end
\* or by the first provider call that raises
check_unused_resources(o) ==
    LET volumes == IF "describe_volumes" \in o.failing THEN <<>> ELSE o.answers.volumes
        addresses == IF {"describe_volumes", "describe_addresses"} \cap o.failing # {} THEN <<>>
                     ELSE o.answers.addresses
        monthly_savings == VolumeCost(volumes) + UnusedEipCents * Cardinality(Unassociated(addresses))
    IN IF monthly_savings > 0
       THEN Opportunity("Unused Resources", monthly_savings,
                        Len(volumes) + Cardinality(Unassociated(addresses)))
       ELSE None

\* a recommendation of either purchase kind is [amount, complete]: complete when
\* the fields the details are read from with rec[...] are all there
get_ri_recommendations(o) ==
    LET recs == o.answers.ri IN
    IF \/ "get_reservation_purchase_recommendation" \in o.failing
       \/ recs = <<>>
       \/ FloatRaises(recs[1].amount)
       \/ ~recs[1].complete
    THEN None
    ELSE Opportunity("Reserved Instances", Float(recs[1].amount), 1)

get_savings_plans_recommendations(o) ==
    LET recs == o.answers.sp IN
    IF \/ "get_savings_plans_purchase_recommendation" \in o.failing
       \/ recs = <<>>
       \/ FloatRaises(recs[1].amount)
    THEN None
    ELSE Opportunity("Savings Plans", Float(recs[1].amount), 1)

\* `if x: append x; total += x['monthly_savings']`
Report(recommendations, x) ==
    IF x = None THEN recommendations
    ELSE [recommendations EXCEPT !.savings_opportunities = Append(@, x),
                                 !.total_potential_savings = @ + x.monthly_savings]

OptimizerStep(at, next, report) ==
    /\ optim.pc = at
    /\ optim' = [optim EXCEPT !.pc = next, !.recommendations = report]
    /\ UNCHANGED <<cfg, resources, failing, pc, summary, calls, outbox, invocations, started,
                   pending, returned, fleet, sched>>

\* handler(event, context) up to the cost and usage call, which ends the
\* analysis when it raises
Analyse ==
    /\ optim.pc = "idle"
    /\ optim.pending > 0
    /\ optim' = [optim EXCEPT
                    !.pending = @ - 1,
                    !.pc = IF "get_cost_and_usage" \in optim.failing THEN "return"
                           ELSE "rightsizing",
                    !.recommendations =
                        [NoReport EXCEPT !.error = IF "get_cost_and_usage" \in optim.failing
                                                   THEN "get_cost_and_usage" ELSE ""]]
    /\ UNCHANGED <<cfg, resources, failing, pc, summary, calls, outbox, invocations, started,
                   pending, returned, fleet, sched>>

Rightsizing ==
    OptimizerStep("rightsizing", "unused",
                  Report(optim.recommendations, get_rightsizing_recommendations(optim)))

UnusedResources ==
    OptimizerStep("unused", "ri", Report(optim.recommendations, check_unused_resources(optim)))

ReservedInstances ==
    OptimizerStep("ri", "sp", Report(optim.recommendations, get_ri_recommendations(optim)))

SavingsPlans ==
    OptimizerStep("sp", "send",
                  Report(optim.recommendations, get_savings_plans_recommendations(optim)))

\* send_recommendations: nothing without a topic, and a publish that raises is
\* caught
SendRecommendations ==
    /\ optim.pc = "send"
    /\ optim' = [optim EXCEPT
                    !.pc = "return",
                    !.published = IF optim.topic /\ "publish" \notin optim.failing
                                  THEN Append(@, optim.recommendations) ELSE @]
    /\ UNCHANGED <<cfg, resources, failing, pc, summary, calls, outbox, invocations, started,
                   pending, returned, fleet, sched>>

OptimizerReturn ==
    /\ optim.pc = "return"
    /\ optim' = [optim EXCEPT !.pc = "idle", !.returned = Append(@, optim.recommendations)]
    /\ UNCHANGED <<cfg, resources, failing, pc, summary, calls, outbox, invocations, started,
                   pending, returned, fleet, sched>>

OptimizerNext ==
    \/ Analyse
    \/ Rightsizing
    \/ UnusedResources
    \/ ReservedInstances
    \/ SavingsPlans
    \/ SendRecommendations
    \/ OptimizerReturn

----------------------------------------------------------------------------

(* Backing states and configurations the sweeps are run against *)

Keep == <<"k", "e", "e", "p">>
Tmp == <<"t", "m", "p">>
NameTag == <<"N", "a", "m", "e">>

\* the two-digit decimal numeral of n
Num(n) == <<Digits[(n \div 10) + 1], Digits[(n % 10) + 1]>>

Id(stem, i) == stem \o <<"-">> \o Num(i)

Old == [k |-> "time", age |-> AGE_THRESHOLD_DAYS]
Young == [k |-> "time", age |-> AGE_THRESHOLD_DAYS - 1]
Null == [k |-> "none"]
Absent == [k |-> "absent"]

\* a reclaimable record of the kind: plain name, no tags, old enough, not in use
Base(kind, i) ==
    [kind |-> kind, id |-> Id(Tmp, i), name |-> Id(Tmp, i), tags |-> {}, ts |-> Old,
     busy |-> FALSE, size |-> i, items |-> <<>>, refs |-> <<>>]

\* a target group with n registered targets, healthy of them reporting healthy
Targets(j, n, healthy) == [id |-> Id(<<"t", "g">>, j), n |-> n, healthy |-> healthy]

TargetGroup(j, n) == Targets(j, n, n)

\* n images tagged v1, v2, ... in listing order
RECURSIVE Tagged(_)
Tagged(n) == IF n = 0 THEN <<>> ELSE Append(Tagged(n - 1), [id |-> <<"v">> \o Num(n), n |-> n])

\* $LATEST followed by the published versions 1 .. n
RECURSIVE Published(_)
Published(n) ==
    IF n = 0 THEN <<[id |-> LatestVersion, n |-> 0]>>
    ELSE Append(Published(n - 1), [id |-> Num(n), n |-> n])

\* the record with one attribute changed at a time
Common(kind, i) ==
    LET b == Base(kind, i)
    IN { b,
         [b EXCEPT !.id = Id(Keep, i), !.name = Id(Keep, i)],
         [b EXCEPT !.tags = {NameTag}],
         [b EXCEPT !.ts = Young],
         [b EXCEPT !.ts = Null],
         [b EXCEPT !.ts = Absent],
         [b EXCEPT !.busy = TRUE] }

\* kinds whose whitelist name is not their identifier
Named(kind, i) ==
    LET b == Base(kind, i)
    IN { [b EXCEPT !.id = Id(Keep, i)], [b EXCEPT !.name = Id(Keep, i)] }

Groups == {"volume", "snapshot", "address", "lb", "nat", "rds", "ami", "repo",
           "loggroup", "bucket", "sg", "function"}

\* the records a backing state of the group may hold at position i
Rich(g, i) ==
    CASE g = "volume" -> Common("volume", i)
      [] g = "snapshot" -> Common("snapshot", i)
      [] g = "address" -> Common("address", i) \cup Named("address", i)
      [] g = "lb" -> (Common("lb", i) \ {[Base("lb", i) EXCEPT !.busy = TRUE]})
                     \cup Named("lb", i)
                     \cup { [Base("lb", i) EXCEPT !.items = tgs] :
                            tgs \in { <<TargetGroup(1, 0)>>, <<TargetGroup(1, 1)>>,
                                      <<TargetGroup(1, 0), TargetGroup(2, 1)>> } }
      [] g = "nat" -> Common("nat", i)
      [] g = "rds" -> Common("dbsnap", i) \cup
                      { Base("clustersnap", i),
                        [Base("clustersnap", i) EXCEPT !.id = Id(Keep, i)],
                        [Base("clustersnap", i) EXCEPT !.ts = Young] }
      [] g = "ami" -> (Common("image", i) \ {[Base("image", i) EXCEPT !.busy = TRUE]})
                      \cup Named("image", i)
                      \cup { [Base("image", i) EXCEPT !.refs = <<Id(Tmp, 1)>>],
                             [Base("snapshot", i) EXCEPT !.busy = TRUE],
                             Base("snapshot", i) }
      [] g = "repo" -> { [r EXCEPT !.items = Tagged(ECR_KEEP + 1)] :
                         r \in { Base("repo", i),
                                 [Base("repo", i) EXCEPT !.id = Id(Keep, i)],
                                 [Base("repo", i) EXCEPT !.tags = {NameTag}],
                                 [Base("repo", i) EXCEPT !.ts = Young] } }
                       \cup { [Base("repo", i) EXCEPT !.items = Tagged(ECR_KEEP)] }
      [] g = "loggroup" -> Common("loggroup", i)
      [] g = "bucket" -> Common("bucket", i)
      [] g = "sg" -> (Common("sg", i) \ {[Base("sg", i) EXCEPT !.busy = TRUE]})
                     \cup Named("sg", i)
                     \cup { [Base("sg", i) EXCEPT !.name = DefaultGroupName],
                            [Base("eni", i) EXCEPT !.refs = <<Id(Tmp, 1)>>] }
      [] g = "function" -> { [r EXCEPT !.items = Published(LAMBDA_KEEP + 1)] :
                             r \in { Base("function", i),
                                     [Base("function", i) EXCEPT !.id = Id(Keep, i)],
                                     [Base("function", i) EXCEPT !.tags = {NameTag}],
                                     [Base("function", i) EXCEPT !.ts = Young] } }
                           \cup { [Base("function", i) EXCEPT !.items = Published(LAMBDA_KEEP - 1)] }

\* reclaimable records only
Plain(g, i) ==
    CASE g = "lb" -> { [Base("lb", i) EXCEPT !.items = <<TargetGroup(i, 0)>>] }
      [] g = "rds" -> { Base("dbsnap", i), Base("clustersnap", i) }
      [] g = "ami" -> { [Base("image", i) EXCEPT !.refs = <<Id(Tmp, 1)>>],
                        [Base("snapshot", i) EXCEPT !.busy = TRUE] }
      [] g = "repo" -> { [Base("repo", i) EXCEPT !.items = Tagged(ECR_KEEP + 1)] }
      [] g = "loggroup" -> { [Base("loggroup", i) EXCEPT !.ts = Absent] }
      [] g = "sg" -> { Base("sg", i) }
      [] g = "function" -> { [Base("function", i) EXCEPT !.items = Published(LAMBDA_KEEP + 2)] }
      [] OTHER -> { Base(g, i) }

\* the backing states of exactly n records, record i drawn from Variants(g, i)
RECURSIVE Exactly(_, _, _)
Exactly(Variants(_, _), g, n) ==
    IF n = 0 THEN {<<>>}
    ELSE { Append(w, r) : w \in Exactly(Variants, g, n - 1), r \in Variants(g, n) }

UpTo(Variants(_, _), n) ==
    UNION { Exactly(Variants, g, m) : g \in Groups, m \in 0..n }

\* the provider calls a sweep can make about one record
Ops(r) ==
    CASE r.kind = "volume" -> { <<"describe_volumes", <<>>>>, <<"delete_volume", r.id>> }
      [] r.kind = "snapshot" -> { <<"describe_snapshots", <<>>>>, <<"delete_snapshot", r.id>> }
      [] r.kind = "address" -> { <<"describe_addresses", <<>>>>, <<"release_address", r.id>> }
      [] r.kind = "lb" -> { <<"describe_load_balancers", <<>>>>,
                            <<"describe_target_groups", r.id>>,
                            <<"delete_load_balancer", r.id>> }
                          \cup { <<"describe_target_health", r.items[j].id>> : j \in DOMAIN r.items }
      [] r.kind = "nat" -> { <<"describe_nat_gateways", <<>>>>, <<"delete_nat_gateway", r.id>> }
      [] r.kind = "dbsnap" -> { <<"describe_db_snapshots", <<>>>>,
                                <<"describe_db_cluster_snapshots", <<>>>>,
                                <<"delete_db_snapshot", r.id>> }
      [] r.kind = "clustersnap" -> { <<"describe_db_snapshots", <<>>>>,
                                     <<"describe_db_cluster_snapshots", <<>>>>,
                                     <<"delete_db_cluster_snapshot", r.id>> }
      [] r.kind = "image" -> { <<"describe_images", <<>>>>, <<"deregister_image", r.id>> }
                             \cup { <<"delete_snapshot", r.refs[j]>> : j \in DOMAIN r.refs }
      [] r.kind = "repo" -> { <<"describe_repositories", <<>>>>, <<"list_images", r.id>>,
                              <<"batch_delete_image", r.id>> }
      [] r.kind = "loggroup" -> { <<"describe_log_groups", <<>>>>,
                                  <<"describe_log_streams", r.id>>,
                                  <<"delete_log_group", r.id>> }
      [] r.kind = "bucket" -> { <<"list_buckets", <<>>>>, <<"list_objects_v2", r.id>>,
                                <<"delete_bucket", r.id>> }
      [] r.kind = "sg" -> { <<"describe_security_groups", <<>>>>,
                            <<"describe_network_interfaces", <<>>>>,
                            <<"delete_security_group", r.id>> }
      [] r.kind = "eni" -> { <<"describe_network_interfaces", <<>>>> }
      [] r.kind = "function" -> { <<"list_functions", <<>>>>,
                                  <<"list_versions_by_function", r.id>> }
                                \cup { <<"delete_function", r.id \o <<":">> \o r.items[j].id>> :
                                       j \in DOMAIN r.items }

\* the first list/describe call of each kind handler, in the sweep's order
ListCalls ==
    << <<"describe_volumes", <<>>>>, <<"describe_snapshots", <<>>>>,
       <<"describe_addresses", <<>>>>, <<"describe_load_balancers", <<>>>>,
       <<"describe_nat_gateways", <<>>>>, <<"describe_db_snapshots", <<>>>>,
       <<"describe_images", <<>>>>, <<"describe_repositories", <<>>>>,
       <<"describe_log_groups", <<>>>>, <<"list_buckets", <<>>>>,
       <<"describe_security_groups", <<>>>>, <<"list_functions", <<>>>> >>

ListCallSet == { ListCalls[i] : i \in DOMAIN ListCalls }

FaultPoints(w) ==
    IF w = <<>> THEN ListCallSet ELSE UNION { Ops(w[i]) : i \in DOMAIN w }

AtMost(S, n) == { F \in SUBSET S : Cardinality(F) <= n }

\* the comma-separated whitelist variables: unset, one entry each, several entries
Whitelists ==
    { [prefixes |-> <<>>, tags |-> <<>>],
      [prefixes |-> Keep, tags |-> NameTag],
      [prefixes |-> <<"x", ",">> \o Keep, tags |-> <<"E", "n", "v", ",">> \o NameTag \o <<",">>] }

Config(dry_run, topic, wl) ==
    [DRY_RUN |-> dry_run, SNS_TOPIC_ARN |-> topic, CLEAN |-> KindSet,
     WHITELIST_PREFIXES |-> wl.prefixes, WHITELIST_TAGS |-> wl.tags]

\* the cleanup Lambda before its first invocation
CleanupInit(c, w, F, n) ==
    /\ cfg = c
    /\ resources = w
    /\ failing = F
    /\ pending = n
    /\ pc = "idle"
    /\ summary = [timestamp |-> 0, dry_run |-> c.DRY_RUN,
                  resources_found |-> [k \in {} |-> 0],
                  resources_deleted |-> [k \in {} |-> 0],
                  estimated_monthly_savings |-> 0, errors |-> <<>>]
    /\ calls = <<>>
    /\ outbox = <<>>
    /\ invocations = 0
    /\ started = <<>>
    /\ returned = <<>>

\* the cleanup Lambda on its own: the scheduler and the optimizer are never invoked
InitWith(c, w, F, n) ==
    /\ CleanupInit(c, w, F, n)
    /\ fleet = NoFleet
    /\ sched = SchedulerOff
    /\ optim = OptimizerOff

\* consecutive sweeps over reclaimable records, with provider calls that fail
Init ==
    \E dry_run \in BOOLEAN, w \in UpTo(Plain, MaxRecords) :
        \E F \in AtMost(FaultPoints(w), MaxFaults) :
            InitWith(Config(dry_run, TRUE, [prefixes |-> <<>>, tags |-> <<>>]), w, F,
                     MaxInvocations)

Spec == Init /\ [][Next]_vars

\* one sweep over records of every shape, all provider calls succeeding
InitRecords ==
    \E dry_run \in BOOLEAN, wl \in Whitelists, w \in UpTo(Rich, MaxRecords) :
        InitWith(Config(dry_run, TRUE, wl), w, {}, 1)

SpecRecords == InitRecords /\ [][Next]_vars

\* one reclaimable record of every kind
OneOfEach ==
    << Base("volume", 1), Base("snapshot", 2), Base("address", 3),
       [Base("lb", 4) EXCEPT !.items = <<TargetGroup(4, 0)>>], Base("nat", 5),
       Base("dbsnap", 6), Base("clustersnap", 7), Base("image", 8),
       [Base("repo", 9) EXCEPT !.items = Tagged(ECR_KEEP + 1)],
       [Base("loggroup", 10) EXCEPT !.ts = Absent], Base("bucket", 11), Base("sg", 12),
       [Base("function", 13) EXCEPT !.items = Published(LAMBDA_KEEP + 1)] >>

\* one sweep in which any set of kind handlers has its listing call fail
InitHandlers ==
    \E dry_run \in BOOLEAN, F \in SUBSET ListCallSet :
        InitWith(Config(dry_run, TRUE, [prefixes |-> <<>>, tags |-> <<>>]), OneOfEach, F, 1)

SpecHandlers == InitHandlers /\ [][Next]_vars

PublishCall == <<"publish", <<>>>>

\* the sets of listing calls of which few fail, or few succeed
FewOrMost(n) ==
    { F \in SUBSET ListCallSet :
        Cardinality(F) <= n \/ Cardinality(F) >= Cardinality(ListCallSet) - n }

\* one sweep, with or without a topic, in which handlers fail and publishing may fail
InitNotify ==
    \E dry_run \in BOOLEAN, topic \in BOOLEAN, H \in FewOrMost(MaxFaults),
       P \in SUBSET {PublishCall} :
        InitWith(Config(dry_run, topic, [prefixes |-> <<>>, tags |-> <<>>]), OneOfEach,
                 H \cup P, 1)

SpecNotify == InitNotify /\ [][Next]_vars

\* one record of every kind, the image backed by the snapshot
Backed == [OneOfEach EXCEPT ![8].refs = <<OneOfEach[2].id>>]

\* one sweep under every setting of the CLEAN_* flags: an active one in which
\* every call succeeds, a dry run in which every listing call fails
InitFlags ==
    \E dry_run \in BOOLEAN, clean \in SUBSET KindSet :
        InitWith([Config(dry_run, TRUE, [prefixes |-> <<>>, tags |-> <<>>])
                     EXCEPT !.CLEAN = clean], Backed,
                 IF dry_run THEN ListCallSet ELSE {}, 1)

SpecFlags == InitFlags /\ [][Next]_vars

\* the records of a handler's kind that are in active use, under every name, tag
\* set and timestamp: an attached volume, an associated address, a bucket with an
\* object, a log group with a stream, a snapshot created by CreateImage
Occupied(kind) ==
    { [Base(kind, 1) EXCEPT !.id = id, !.name = id, !.tags = tags, !.ts = ts, !.busy = TRUE] :
        id \in {Id(Tmp, 1), Id(Keep, 1)}, tags \in {{}, {NameTag}},
        ts \in {Old, Young, Null, Absent} }

\* security groups under every name, tag set and timestamp
Grouped ==
    { [Base("sg", 1) EXCEPT !.name = name, !.tags = tags, !.ts = ts] :
        name \in {Id(Tmp, 1), Id(Keep, 1)}, tags \in {{}, {NameTag}},
        ts \in {Old, Absent} }

\* backing states that begin with a record in active use: the security group is on
\* a network interface or is named default, the snapshot may back an image
InUseWorlds ==
    UNION { { <<r>> : r \in Occupied(kind) } :
            kind \in {"volume", "address", "bucket", "loggroup", "snapshot"} }
    \cup { <<sg, [Base("eni", 2) EXCEPT !.refs = <<sg.id>>]>> : sg \in Grouped }
    \cup { <<[sg EXCEPT !.name = DefaultGroupName]>> : sg \in Grouped }
    \cup { <<s, [Base("image", 2) EXCEPT !.refs = <<s.id>>]>> : s \in Occupied("snapshot") }

\* m reclaimable records of the kind, after the first k positions
RECURSIVE Siblings(_, _, _)
Siblings(kind, k, m) ==
    IF m = 0 THEN <<>> ELSE Append(Siblings(kind, k, m - 1), Base(kind, k + m))

\* one sweep over a record in active use and its reclaimable siblings, in which at
\* most one of the calls about the record fails
InitInUse ==
    \E dry_run \in BOOLEAN, wl \in Whitelists, w \in InUseWorlds, m \in 0..(MaxRecords - 1) :
        \E F \in AtMost(Ops(w[1]), 1) :
            InitWith(Config(dry_run, TRUE, wl), w \o Siblings(w[1].kind, Len(w), m), F, 1)

SpecInUse == InitInUse /\ [][Next]_vars

\* the target groups of a load balancer: none, empty ones, ones whose registered
\* targets are all unhealthy, ones with a healthy target
TargetGroupLists ==
    { <<>>, <<Targets(1, 0, 0)>>, <<Targets(1, 1, 0)>>, <<Targets(1, 1, 1)>>,
      <<Targets(1, 2, 1)>>, <<Targets(1, 0, 0), Targets(2, 1, 0)>>,
      <<Targets(1, 0, 0), Targets(2, 1, 1)>>, <<Targets(1, 1, 0), Targets(2, 1, 1)>> }

\* one sweep over a load balancer and its reclaimable siblings, in which at most one
\* of the calls about the load balancer fails
InitTargets ==
    \E dry_run \in BOOLEAN, wl \in Whitelists, tgs \in TargetGroupLists,
       name \in {Id(Tmp, 1), Id(Keep, 1)}, ts \in {Old, Young},
       m \in 0..(MaxRecords - 1) :
        LET lb == [Base("lb", 1) EXCEPT !.name = name, !.ts = ts, !.items = tgs]
        IN \E F \in AtMost(Ops(lb), 1) :
               InitWith(Config(dry_run, TRUE, wl), <<lb>> \o Siblings("lb", 1, m), F, 1)

SpecTargets == InitTargets /\ [][Next]_vars

\* a second address next to the one of OneOfEach: unassociated, associated, named
\* or tagged as the whitelist may say
SecondAddresses ==
    LET b == Base("address", 14)
    IN { b, [b EXCEPT !.busy = TRUE], [b EXCEPT !.id = Id(Keep, 14), !.name = Id(Keep, 14)],
         [b EXCEPT !.tags = {NameTag}] }

\* one record of every kind, a second address and a second volume or snapshot
PricedWorlds ==
    { OneOfEach \o <<a, Base(kind, 15)>> : a \in SecondAddresses, kind \in {"volume", "snapshot"} }

\* one sweep in which at most one listing call or one delete call fails
InitSavings ==
    \E dry_run \in BOOLEAN, wl \in Whitelists, w \in PricedWorlds :
        \E F \in AtMost(ListCallSet \cup { <<"release_address", w[3].id>>,
                                          <<"delete_volume", w[1].id>>,
                                          <<"delete_snapshot", w[2].id>> }, 1) :
            InitWith(Config(dry_run, TRUE, wl), w, F, 1)

SpecSavings == InitSavings /\ [][Next]_vars

\* the snapshots images are backed by, created by CreateImage
BackingSnapshots ==
    << [Base("snapshot", 11) EXCEPT !.busy = TRUE], [Base("snapshot", 12) EXCEPT !.busy = TRUE] >>

\* a reclaimable image with no, one or two backing snapshots
BackedImages(g, i) ==
    { [Base("image", i) EXCEPT !.refs = refs] :
        refs \in { <<>>, <<BackingSnapshots[1].id>>, <<BackingSnapshots[2].id>>,
                   <<BackingSnapshots[1].id, BackingSnapshots[2].id>> } }

\* one sweep over up to MaxRecords images, two of which may share a snapshot, in
\* which deregister and snapshot-delete calls fail
InitAmi ==
    \E dry_run \in BOOLEAN, m \in 0..MaxRecords :
        \E w \in Exactly(BackedImages, "ami", m) :
            \E F \in AtMost({ <<"deregister_image", w[i].id>> : i \in DOMAIN w }
                            \cup { <<"delete_snapshot", BackingSnapshots[j].id>> : j \in {1, 2} },
                            MaxFaults) :
                InitWith(Config(dry_run, TRUE, [prefixes |-> <<>>, tags |-> <<>>]),
                         w \o BackingSnapshots, F, 1)

SpecAmi == InitAmi /\ [][Next]_vars

\* a function with $LATEST alone or with up to MaxVersions published versions, under
\* a plain or a whitelisted name
Versioned(g, i) ==
    { [Base("function", i) EXCEPT !.items = Published(n)] : n \in 0..MaxVersions }
    \cup { [Base("function", i) EXCEPT !.id = Id(Keep, i), !.name = Id(Keep, i),
                                       !.items = Published(MaxVersions)] }

\* consecutive sweeps over up to MaxRecords functions, in which the version listing
\* or the delete of an old version of the first function may fail
InitVersions ==
    \E dry_run \in BOOLEAN, m \in 0..MaxRecords,
       wl \in { [prefixes |-> <<>>, tags |-> <<>>], [prefixes |-> Keep, tags |-> NameTag] } :
        \E w \in Exactly(Versioned, "function", m) :
            \E F \in SUBSET { <<"list_versions_by_function", Id(Tmp, 1)>>,
                              <<"delete_function", Id(Tmp, 1) \o <<":">> \o Num(1)>> } :
                InitWith(Config(dry_run, TRUE, wl), w, F, 2)

SpecVersions == InitVersions /\ [][Next]_vars

\* two consecutive active sweeps over records of every shape, all provider calls
\* succeeding
InitRerun ==
    \E wl \in Whitelists, w \in UpTo(Rich, MaxRecords) :
        InitWith(Config(FALSE, TRUE, wl), w, {}, 2)

SpecRerun == InitRerun /\ [][Next]_vars

\* one record of every kind; the image's backing snapshot was created by CreateImage
\* or is an ordinary snapshot, young or old
BackedWorlds ==
    { [Backed EXCEPT ![2].busy = busy, ![2].ts = ts] : busy \in BOOLEAN, ts \in {Old, Young} }

\* one sweep with up to MaxEnabled of the CLEAN_* flags set
InitOrder ==
    \E dry_run \in BOOLEAN, w \in BackedWorlds,
       clean \in { S \in SUBSET KindSet : Cardinality(S) <= MaxEnabled } :
        \E F \in AtMost({ <<"delete_snapshot", w[2].id>>, <<"describe_images", <<>>>> }, 1) :
            InitWith([Config(dry_run, TRUE, [prefixes |-> <<>>, tags |-> <<>>])
                         EXCEPT !.CLEAN = clean], w, F, 1)

SpecOrder == InitOrder /\ [][Next]_vars

\* a snapshot under every name and tag set, created by CreateImage or not, and a
\* reclaimable image it backs
WhitelistedBacking ==
    { << [Base("snapshot", 1) EXCEPT !.id = id, !.name = id, !.tags = tags, !.busy = busy],
         [Base("image", 2) EXCEPT !.refs = <<id>>] >> :
        id \in {Id(Tmp, 1), Id(Keep, 1)}, tags \in {{}, {NameTag}}, busy \in BOOLEAN }

\* one sweep over a snapshot and the image it backs, all provider calls succeeding
InitBacking ==
    \E dry_run \in BOOLEAN, wl \in Whitelists, w \in WhitelistedBacking :
        InitWith(Config(dry_run, TRUE, wl), w, {}, 1)

SpecBacking == InitBacking /\ [][Next]_vars

\* the kinds whose handler reads the record's timestamp by subscript
SubscriptKinds == {"volume", "snapshot", "lb", "nat", "dbsnap", "clustersnap", "image"}

\* reclaimable records of one kind followed by a record with or without its
\* timestamp, and a database snapshot followed by a cluster snapshot
PartWayWorlds ==
    { Siblings(kind, 0, m) \o << [Base(kind, m + 1) EXCEPT !.ts = ts] >> :
        kind \in SubscriptKinds, m \in 0..(MaxRecords - 1), ts \in {Old, Absent} }
    \cup { << Base("dbsnap", 1), Base("clustersnap", 2) >> }

\* one sweep in which at most one listing call fails, the second listing call of the
\* database-snapshot handler included
InitAbort ==
    \E dry_run \in BOOLEAN, w \in PartWayWorlds :
        \E F \in AtMost(ListCallSet \cup { <<"describe_db_cluster_snapshots", <<>>>> }, 1) :
            InitWith(Config(dry_run, TRUE, [prefixes |-> <<>>, tags |-> <<>>]), w, F, 1)

SpecAbort == InitAbort /\ [][Next]_vars

\* names and tag sets is_whitelisted is asked about: image.get('Name', '') may be
\* empty, and a tag key may be the empty string
ProbeNames == { <<>>, Id(Tmp, 1), Id(Keep, 1) }
ProbeTagSets == { {}, {<<>>}, {NameTag}, {<<>>, NameTag} }

\* the whitelist variables unset, and with empty entries between the commas
SparseWhitelists ==
    { [prefixes |-> <<>>, tags |-> <<>>],
      [prefixes |-> <<",">>, tags |-> <<",", ",">>],
      [prefixes |-> <<",">> \o Keep, tags |-> NameTag \o <<",">>],
      [prefixes |-> Keep \o <<",", ",">> \o Tmp, tags |-> <<",">> \o NameTag] }

\* one sweep over an image under every probe name and tag set, and its siblings
InitWhitelist ==
    \E dry_run \in BOOLEAN, wl \in SparseWhitelists, name \in ProbeNames,
       tags \in ProbeTagSets, m \in 0..(MaxRecords - 1) :
        InitWith(Config(dry_run, TRUE, wl),
                 << [Base("image", 1) EXCEPT !.name = name, !.tags = tags] >>
                     \o Siblings("image", 1, m), {}, 1)

SpecWhitelist == InitWhitelist /\ [][Next]_vars

Latest == <<"l", "a", "t", "e", "s", "t">>

\* the imageTag of an image of the given sort, <<>> for an image without one
TagOf(sort, n) ==
    CASE sort = "tagged" -> <<"v">> \o Num(n)
      [] sort = "untagged" -> <<>>
      [] sort = "latest" -> Latest

\* n images of one sort, the image at position p (if any) of another
Listing(n, sort, p, other) ==
    [i \in 1..n |-> [id |-> TagOf(IF i = p THEN other ELSE sort, i), n |-> i]]

Listings ==
    { Listing(n, sort, 0, sort) : n \in 0..MaxImages, sort \in {"tagged", "untagged"} }
    \cup { Listing(n, sort, p, other) : n \in 1..MaxImages, sort \in {"tagged", "untagged"},
                                        p \in 1..MaxImages,
                                        other \in {"tagged", "untagged", "latest"} }

\* one sweep over one repository
InitEcr ==
    \E dry_run \in BOOLEAN, images \in Listings, stem \in {Tmp, Keep} :
        InitWith(Config(dry_run, TRUE, [prefixes |-> Keep, tags |-> <<>>]),
                 << [Base("repo", 1) EXCEPT !.id = Id(stem, 1), !.name = Id(stem, 1),
                                            !.items = images] >>, {}, 1)

SpecEcr == InitEcr /\ [][Next]_vars

----------------------------------------------------------------------------
(* Properties *)

DeleteOps ==
    {"delete_volume", "delete_snapshot", "release_address", "delete_load_balancer",
     "delete_nat_gateway", "delete_db_snapshot", "delete_db_cluster_snapshot",
     "deregister_image", "batch_delete_image", "delete_log_group", "delete_bucket",
     "delete_security_group", "delete_function"}

\* the kind handler at position i of the sweep in progress (or just finished) is over
Done(i) ==
    /\ invocations > 0
    /\ \/ pc \in {"notify", "return", "idle"}
       \/ \E j \in DOMAIN Kinds : j > i /\ pc = Kinds[j]

Issued(op, arg) == \E j \in DOMAIN calls : calls[j][1] = op /\ calls[j][2] = arg

Times(seq, e) == Cardinality({j \in DOMAIN seq : seq[j] = e})

\* C1: in dry-run mode no sweep, whatever the provider answers, issues a
\* delete/release/deregister call or changes the backing state, and every
\* resources_deleted entry of the summary is 0.
C1_DryRunDeletesNothing ==
    cfg.DRY_RUN =>
        /\ \A j \in DOMAIN calls : calls[j][1] \notin DeleteOps
        /\ \A k \in DOMAIN summary.resources_deleted : summary.resources_deleted[k] = 0
        /\ invocations > 0 => resources = started

\* a dry-run sweep is through: it found reclaimable records and met a provider failure
C1_Witness ==
    /\ cfg.DRY_RUN /\ pc = "return"
    /\ summary.errors # <<>>
    /\ \E k \in DOMAIN summary.resources_found : summary.resources_found[k] > 0
    /\ DOMAIN summary.resources_deleted # {}

\* C2: in every state of a sweep, dry-run or active, with or without provider
\* failures, every kind with a deleted count has a found count at least as large.
C2_FoundAtLeastDeleted ==
    \A k \in DOMAIN summary.resources_deleted :
        /\ k \in DOMAIN summary.resources_found
        /\ summary.resources_found[k] >= summary.resources_deleted[k]

\* an active sweep is through in which a delete was attempted and one failed
C2_Witness ==
    /\ ~cfg.DRY_RUN /\ pc = "return"
    /\ summary.errors # <<>>
    /\ \E k \in DOMAIN summary.resources_deleted : summary.resources_deleted[k] > 0

\* the record kinds the handler of a summary key lists
KindsOf(key) ==
    CASE key = "ebs_volumes" -> {"volume"}
      [] key = "ebs_snapshots" -> {"snapshot"}
      [] key = "elastic_ips" -> {"address"}
      [] key = "load_balancers" -> {"lb"}
      [] key = "nat_gateways" -> {"nat"}
      [] key = "rds_snapshots" -> {"dbsnap", "clustersnap"}
      [] key = "ami_images" -> {"image"}
      [] key = "ecr_images" -> {"repo"}
      [] key = "cloudwatch_logs" -> {"loggroup"}
      [] key = "s3_buckets" -> {"bucket"}
      [] key = "security_groups" -> {"sg"}
      [] key = "lambda_versions" -> {"function"}

\* the retention predicate's whitelist step, on the record's own name and tag set
Whitelisted(r) == is_whitelisted(r.name, r.tags)

\* the occupancy signal of the record in backing state w
InUse(r, w) ==
    \/ r.busy
    \/ r.kind = "lb" /\ \E j \in DOMAIN r.items : r.items[j].n > 0
    \/ r.kind = "sg" /\ \/ r.name = DefaultGroupName
                        \/ \E i \in DOMAIN w : w[i].kind = "eni" /\
                               \E j \in DOMAIN w[i].refs : w[i].refs[j] = r.id

\* the retention predicate's age step: an absent or null timestamp is old enough
AgedOut(r) == r.ts.k = "time" => r.ts.age >= AGE_THRESHOLD_DAYS

\* what of the record can be reclaimed at all: the images of a repository beyond the
\* ECR_KEEP most recent eligible ones, the versions of a function beyond the
\* LAMBDA_KEEP most recent that are not $LATEST, the record itself otherwise
Units(r) ==
    CASE r.kind = "repo" ->
            LET eligible == Cardinality({j \in DOMAIN r.items :
                                r.items[j].id # <<>> /\ r.items[j].id \notin ProtectedTags})
            IN IF eligible > ECR_KEEP THEN eligible - ECR_KEEP ELSE 0
      [] r.kind = "function" ->
            Cardinality({j \in DOMAIN r.items :
                j <= Len(r.items) - LAMBDA_KEEP /\ r.items[j].id # LatestVersion})
      [] OTHER -> 1

RECURSIVE UnitsIn(_, _, _, _)
UnitsIn(Counts(_, _), key, w, i) ==
    IF i = 0 THEN 0
    ELSE UnitsIn(Counts, key, w, i - 1)
         + (IF w[i].kind \in KindsOf(key) /\ Counts(w[i], w) THEN Units(w[i]) ELSE 0)

NotWhitelisted(r, w) == ~Whitelisted(r)

Reclaimable(r, w) == ~Whitelisted(r) /\ AgedOut(r) /\ ~InUse(r, w)

DeletesRecord(call, r) ==
    /\ call[1] \in DeleteOps
    /\ \/ call[2] = r.id
       \/ call[1] = "delete_function" /\ StartsWith(call[2], r.id \o <<":">>)

\* C3: a record whose name starts with a whitelist prefix or whose tag set holds a
\* whitelist tag key is never counted in resources_found and never has a delete
\* call issued for it, whatever its kind, age or occupancy.
C3_WhitelistedNeverReclaimed ==
    /\ \A i \in DOMAIN started, j \in DOMAIN calls :
           Whitelisted(started[i]) => ~DeletesRecord(calls[j], started[i])
    /\ \A key \in DOMAIN summary.resources_found :
           summary.resources_found[key] <= UnitsIn(NotWhitelisted, key, started, Len(started))

\* C4: a record whose timestamp is absent is not excluded by the age check, and the
\* absence neither puts an entry in summary.errors nor aborts the record's handler.
C4_AbsentTimestampFailsOpen ==
    \A i \in DOMAIN Kinds, n \in DOMAIN started :
        (Done(i) /\ started[n].kind \in KindsOf(Kinds[i]) /\ started[n].ts.k = "absent") =>
            /\ summary.errors = <<>>
            /\ Kinds[i] \in DOMAIN summary.resources_found
            /\ (~Whitelisted(started[n]) /\ ~InUse(started[n], started))
                   => summary.resources_found[Kinds[i]] >= 1

\* C5: after a dry-run sweep without provider failures, resources_found of every
\* kind is the number of its listed records that are not whitelisted, old enough
\* and not in use; a record younger than the threshold is counted for no kind.
\* (Stated for backing states whose records all carry a timestamp and no tags.)
C5_FoundCountsReclaimable ==
    (cfg.DRY_RUN /\ \A n \in DOMAIN started : started[n].ts.k = "time" /\ started[n].tags = {}) =>
        \A i \in DOMAIN Kinds :
            Done(i) =>
                /\ Kinds[i] \in DOMAIN summary.resources_found
                /\ summary.resources_found[Kinds[i]]
                       = UnitsIn(Reclaimable, Kinds[i], started, Len(started))

SameOutcome(a, b) ==
    /\ a.resources_found = b.resources_found
    /\ a.resources_deleted = b.resources_deleted
    /\ a.estimated_monthly_savings = b.estimated_monthly_savings
    /\ a.errors = b.errors

\* C6: dry-run sweeps run one after another against the same provider give
\* summaries equal in everything but the timestamp, and each leaves the backing
\* state as it found it.
C6_DryRunRepeatable ==
    cfg.DRY_RUN =>
        \A i \in DOMAIN returned, j \in DOMAIN returned :
            /\ SameOutcome(returned[i].summary, returned[j].summary)
            /\ returned[i].after = returned[i].before
            /\ returned[i].before = returned[j].before

\* two dry-run sweeps have returned; they found something and recorded an error
C6_Witness ==
    /\ cfg.DRY_RUN /\ Len(returned) >= 2
    /\ returned[1].summary.timestamp # returned[2].summary.timestamp
    /\ returned[2].summary.errors # <<>>
    /\ \E k \in DOMAIN returned[2].summary.resources_found :
           returned[2].summary.resources_found[k] > 0

\* the images of the repository that carry a tag outside the protected ones
Candidates(images) ==
    SelectSeq(images, LAMBDA image : image.id # <<>> /\ image.id \notin ProtectedTags)

\* the images a batch_delete_image call of the sweep named
BatchDeleted == UNION { {calls[j][3][n] : n \in DOMAIN calls[j][3]} : j \in DOMAIN calls }

\* C7 as stated: of 15 untagged images in a repository that is not whitelisted,
\* exactly 5 are counted; an image tagged latest is never counted or deleted.
C7_FifteenUntaggedCountFive ==
    (Done(8) /\ Len(started) = 1 /\ ~Whitelisted(started[1])) =>
        /\ (/\ Len(started[1].items) = 15
            /\ \A n \in DOMAIN started[1].items : started[1].items[n].id = <<>>)
               => summary.resources_found["ecr_images"] = 5
        /\ \A n \in DOMAIN started[1].items :
               started[1].items[n].id = Latest => started[1].items[n] \notin BatchDeleted

\* C7 amended: the handler counts the images that carry a tag outside
\* latest/prod/production/stable, less the last ECR_KEEP of them in listing order:
\* 5 of 15 such images, the first five listed.  Images without a tag and images
\* tagged latest are never counted or deleted, wherever they are listed; an active
\* sweep removes exactly the counted images, a dry run none.
C7_KeepsLastTenTagged ==
    (Done(8) /\ Len(started) = 1) =>
        LET images == started[1].items
            tagged == Candidates(images)
            extra == IF Len(tagged) > ECR_KEEP THEN Len(tagged) - ECR_KEEP ELSE 0
            doomed == {tagged[n] : n \in 1..extra}
            left == SelectSeq(images, LAMBDA image : image \notin doomed)
        IN /\ summary.resources_found["ecr_images"] = IF Whitelisted(started[1]) THEN 0 ELSE extra
           /\ Len(tagged) = 15 /\ ~Whitelisted(started[1])
                  => summary.resources_found["ecr_images"] = 5
           /\ BatchDeleted = IF cfg.DRY_RUN \/ Whitelisted(started[1]) THEN {} ELSE doomed
           /\ resources[1].items = IF cfg.DRY_RUN \/ Whitelisted(started[1]) THEN images ELSE left
           /\ \A n \in DOMAIN images :
                  images[n].id \in {<<>>, Latest} =>
                      /\ images[n] \notin BatchDeleted
                      /\ \E m \in DOMAIN resources[1].items : resources[1].items[m] = images[n]

\* an active sweep over 15 tagged images listed after one tagged latest: 5 are counted
C7_Witness ==
    /\ Done(8) /\ ~cfg.DRY_RUN /\ Len(started) = 1 /\ ~Whitelisted(started[1])
    /\ Len(started[1].items) = 16
    /\ started[1].items[1].id = Latest
    /\ Len(Candidates(started[1].items)) = 15
    /\ summary.resources_found["ecr_images"] = 5
    /\ Len(resources[1].items) = 11

\* the error text of the kind handler at position i of the sweep
HandlerError ==
    << "EBS volume cleanup error", "EBS snapshot cleanup error", "Elastic IP cleanup error",
       "Load balancer cleanup error", "NAT gateway cleanup error",
       "RDS snapshot cleanup error", "AMI cleanup error", "ECR cleanup error",
       "CloudWatch logs cleanup error", "S3 cleanup error",
       "Security group cleanup error", "Lambda cleanup error" >>

\* C8: whichever kind handlers fail, each failure is caught and recorded in
\* summary.errors once, and every handler after it still runs: it makes its
\* listing call and, unless it fails itself, writes its counts.
C8_HandlerFailuresIsolated ==
    /\ \A i \in DOMAIN Kinds :
           Done(i) =>
               /\ Issued(ListCalls[i][1], ListCalls[i][2])
               /\ IF ListCalls[i] \in failing
                  THEN /\ Times(summary.errors, <<HandlerError[i], <<ListCalls[i][1]>>>>) = 1
                       /\ Kinds[i] \notin DOMAIN summary.resources_found
                  ELSE /\ Kinds[i] \in DOMAIN summary.resources_found
                       /\ \A e \in DOMAIN summary.errors : summary.errors[e][1] # HandlerError[i]
    /\ pc = "return" => Len(summary.errors) = Cardinality(failing \cap ListCallSet)

\* a sweep is through in which the first handler and others failed and the last ran
C8_Witness ==
    /\ pc = "return"
    /\ ListCalls[1] \in failing
    /\ Cardinality(failing) >= 3
    /\ "lambda_versions" \in DOMAIN summary.resources_found
    /\ summary.resources_found["lambda_versions"] = 1

\* the delete/release/deregister calls a sweep owes a reclaimable record (the
\* best-effort deletes of an image's backing snapshots are not among them)
PrimaryDeletes(r) ==
    CASE r.kind = "volume" -> { <<"delete_volume", r.id>> }
      [] r.kind = "snapshot" -> IF r.busy THEN {} ELSE { <<"delete_snapshot", r.id>> }
      [] r.kind = "address" -> { <<"release_address", r.id>> }
      [] r.kind = "lb" -> { <<"delete_load_balancer", r.id>> }
      [] r.kind = "nat" -> { <<"delete_nat_gateway", r.id>> }
      [] r.kind = "dbsnap" -> { <<"delete_db_snapshot", r.id>> }
      [] r.kind = "clustersnap" -> { <<"delete_db_cluster_snapshot", r.id>> }
      [] r.kind = "image" -> { <<"deregister_image", r.id>> }
      [] r.kind = "repo" -> IF Units(r) > 0 THEN { <<"batch_delete_image", r.id>> } ELSE {}
      [] r.kind = "loggroup" -> { <<"delete_log_group", r.id>> }
      [] r.kind = "bucket" -> { <<"delete_bucket", r.id>> }
      [] r.kind = "sg" -> { <<"delete_security_group", r.id>> }
      [] r.kind = "function" ->
            { <<"delete_function", r.id \o <<":">> \o r.items[j].id>> :
              j \in {j \in DOMAIN r.items :
                        j <= Len(r.items) - LAMBDA_KEEP /\ r.items[j].id # LatestVersion} }
      [] OTHER -> {}

\* the error string of a failed call that an inner try catches
DeleteError(c) ==
    CASE c[1] = "delete_volume" -> <<"Failed to delete volume", c[2]>>
      [] c[1] = "delete_snapshot" -> <<"Failed to delete snapshot", c[2]>>
      [] c[1] = "release_address" -> <<"Failed to release EIP", c[2]>>
      [] c[1] = "delete_load_balancer" -> <<"Failed to delete LB", c[2]>>
      [] c[1] = "delete_nat_gateway" -> <<"Failed to delete NAT", c[2]>>
      [] c[1] = "delete_db_snapshot" -> <<"Failed to delete RDS snapshot", c[2]>>
      [] c[1] = "delete_db_cluster_snapshot" -> <<"Failed to delete cluster snapshot", c[2]>>
      [] c[1] = "deregister_image" -> <<"Failed to deregister AMI", c[2]>>
      [] c[1] = "batch_delete_image" -> <<"Failed to clean ECR repo", c[2]>>
      [] c[1] = "list_images" -> <<"Failed to clean ECR repo", c[2]>>
      [] c[1] = "delete_log_group" -> <<"Failed to delete log group", c[2]>>
      [] c[1] = "delete_bucket" -> <<"Failed to delete bucket", c[2]>>
      [] c[1] = "delete_security_group" -> <<"Failed to delete SG", c[2]>>
      [] c[1] = "delete_function" -> <<"Failed to delete Lambda version", c[2]>>
      [] OTHER -> <<c[1], c[2]>>

CallPairs == [j \in DOMAIN calls |-> <<calls[j][1], calls[j][2]>>]

\* the deletes the sweep in progress owes the records of the handler at position i
Owed(i) ==
    UNION { PrimaryDeletes(started[n]) :
            n \in {n \in DOMAIN started : started[n].kind \in KindsOf(Kinds[i])} }

\* C9: in an active sweep whose only provider failures are delete calls, every
\* reclaimable record of a finished handler has had its delete call issued once,
\* also after an earlier record's delete failed, and each failed delete has put
\* exactly one error naming its record in summary.errors (and no other error is there).
C9_DeleteFailureIsLocal ==
    (~cfg.DRY_RUN /\ \A f \in failing : f[1] \in DeleteOps) =>
        /\ \A i \in DOMAIN Kinds :
               Done(i) =>
                   \A c \in Owed(i) :
                       /\ Times(CallPairs, c) = 1
                       /\ Times(summary.errors, DeleteError(c)) = IF c \in failing THEN 1 ELSE 0
        /\ Done(Len(Kinds)) =>
               Len(summary.errors)
                   = Cardinality(failing \cap UNION {Owed(i) : i \in DOMAIN Kinds})

\* an active sweep over two volumes is through: the delete of the first failed,
\* one error was recorded and the second volume is gone
C9_Witness ==
    /\ ~cfg.DRY_RUN /\ pc = "return" /\ invocations = 1
    /\ Len(started) = 2 /\ started[1].kind = "volume" /\ started[2].kind = "volume"
    /\ failing = { <<"delete_volume", started[1].id>> }
    /\ resources = <<started[1]>>
    /\ summary.errors = << <<"Failed to delete volume", started[1].id>> >>

\* the list/describe operations of the handler at position i that its outer try catches
AbortOps ==
    << {"describe_volumes"}, {"describe_snapshots"}, {"describe_addresses"},
       {"describe_load_balancers"}, {"describe_nat_gateways"},
       {"describe_db_snapshots", "describe_db_cluster_snapshots"}, {"describe_images"},
       {"describe_repositories"}, {"describe_log_groups", "describe_log_streams"},
       {"list_buckets"}, {"describe_security_groups", "describe_network_interfaces"},
       {"list_functions"} >>

\* those an inner try of the handler catches: the record is skipped, without an
\* error for the load balancer, bucket and function handlers, with one for a repository
InnerOps ==
    << {}, {}, {}, {"describe_target_groups", "describe_target_health"}, {}, {}, {},
       {"list_images"}, {}, {"list_objects_v2"}, {}, {"list_versions_by_function"} >>

FailedIssued(ops) == {c \in failing : c[1] \in ops /\ Issued(c[1], c[2])}

HandlerErrors(i) == {e \in DOMAIN summary.errors : summary.errors[e][1] = HandlerError[i]}

Unskipped(r, w) ==
    /\ Reclaimable(r, w)
    /\ \A c \in failing : c[1] \in UNION {InnerOps[i] : i \in DOMAIN InnerOps}
                              => c \notin Ops(r)

Position(p) ==
    CASE p = "notify" -> Len(Kinds) + 1
      [] p = "return" -> Len(Kinds) + 2
      [] p = "idle" -> Len(Kinds) + 3
      [] OTHER -> CHOOSE i \in DOMAIN Kinds : Kinds[i] = p

\* C11: whatever handlers fail and whether or not publishing fails, an invocation
\* never ends in an exception and terminates (every step brings it nearer to its
\* return, and once the kind handlers are through the notification step and the
\* return can be taken); the notification step leaves the summary as it found it,
\* and the result returned is that summary.
C11_SweepAlwaysReturns ==
    /\ [][pc' # "raised"]_vars
    /\ [][pc' \in {"notify", "return"} => (ENABLED (SendNotification \/ Return))']_vars
    /\ [][pc # "idle" => Position(pc') > Position(pc)]_vars
    /\ [][pc = "notify" => (pc' = "return" /\ summary' = summary)]_vars
    /\ [][pc = "return" => (/\ pc' = "idle"
                            /\ Len(returned') = invocations
                            /\ returned'[Len(returned')].summary = summary)]_vars

\* a sweep has returned its summary, with the errors of failed handlers in it,
\* although the publish call it made failed
C11_Witness ==
    /\ pc = "idle" /\ Len(returned) = 1
    /\ PublishCall \in failing
    /\ \E j \in DOMAIN returned[1].calls : returned[1].calls[j][1] = "publish"
    /\ outbox = <<>>
    /\ Len(returned[1].summary.errors) >= 2

\* the delete operations of the handler at position i
KindDeletes ==
    << {"delete_volume"}, {"delete_snapshot"}, {"release_address"}, {"delete_load_balancer"},
       {"delete_nat_gateway"}, {"delete_db_snapshot", "delete_db_cluster_snapshot"},
       {"deregister_image"}, {"batch_delete_image"}, {"delete_log_group"}, {"delete_bucket"},
       {"delete_security_group"}, {"delete_function"} >>

\* unit prices of the kinds in the sweep's order, in cents
UnitCents ==
    << VolumeCentsPerGB, SnapshotCentsPerGB, EipCents, LoadBalancerCents, NatCents,
       RdsSnapshotCents, AmiCents, 0, 0, 0, 0, 0 >>

\* the GB of the reclaimable records of the kinds among the first i records of w
RECURSIVE GBIn(_, _, _)
GBIn(key, w, i) ==
    IF i = 0 THEN 0
    ELSE GBIn(key, w, i - 1)
         + (IF w[i].kind \in KindsOf(key) /\ Reclaimable(w[i], w) THEN w[i].size ELSE 0)

\* what the prices make of the found quantities of the kinds at positions 1 .. i
\* whose handler has written its counts
RECURSIVE Priced(_)
Priced(i) ==
    IF i = 0 THEN 0
    ELSE Priced(i - 1)
         + (IF Kinds[i] \notin DOMAIN summary.resources_found THEN 0
            ELSE UnitCents[i] * (IF Kinds[i] \in {"ebs_volumes", "ebs_snapshots"}
                                 THEN GBIn(Kinds[i], started, Len(started))
                                 ELSE summary.resources_found[Kinds[i]]))

\* a delete_snapshot call made for a backing snapshot of a deregistered image
BackingDelete(j) ==
    /\ calls[j][1] = "delete_snapshot"
    /\ \E n \in DOMAIN started, k \in 1..(j - 1) :
           /\ started[n].kind = "image"
           /\ \E m \in DOMAIN started[n].refs : started[n].refs[m] = calls[j][2]
           /\ calls[k][1] = "deregister_image" /\ calls[k][2] = started[n].id

\* the disabled kind at position i has left no counts and no errors in the
\* summary, and its handler has made no list/describe call
Silent(i) ==
    /\ \A j \in DOMAIN calls : calls[j][1] \notin AbortOps[i] \cup InnerOps[i]
    /\ Kinds[i] \notin DOMAIN summary.resources_found
    /\ Kinds[i] \notin DOMAIN summary.resources_deleted
    /\ \A e \in DOMAIN summary.errors :
           /\ summary.errors[e][1] # HandlerError[i]
           /\ \A op \in KindDeletes[i] \cup InnerOps[i] :
                  summary.errors[e][1] # DeleteError(<<op, <<>>>>)[1]

\* C12 as stated: for a disabled kind the sweep issues no list/describe call and
\* no delete call of that kind, and the summary holds nothing on its behalf.
C12_DisabledKindUntouched ==
    /\ summary.estimated_monthly_savings = Priced(Len(Kinds))
    /\ \A i \in DOMAIN Kinds :
           Kinds[i] \notin cfg.CLEAN =>
               /\ Silent(i)
               /\ \A j \in DOMAIN calls : calls[j][1] \notin KindDeletes[i]

\* C12 amended: the handler of a disabled kind does not run: no list/describe
\* call of it is issued, no counts, savings or errors are written on its behalf,
\* and no record of the kind is deleted by it.  One delete call of a disabled kind
\* is still issued by another handler: in active mode the image handler, when
\* enabled, deletes the backing snapshots of the images it deregistered whether
\* or not the snapshot kind is enabled.  No other delete call of the kind is
\* issued, and every other record of the kind is left in place.
C12_DisabledHandlerSilent ==
    /\ summary.estimated_monthly_savings = Priced(Len(Kinds))
    /\ \A i \in DOMAIN Kinds :
           Kinds[i] \notin cfg.CLEAN =>
               /\ Silent(i)
               /\ \A j \in DOMAIN calls :
                      calls[j][1] \in KindDeletes[i] =>
                          /\ Kinds[i] = "ebs_snapshots" /\ BackingDelete(j)
                          /\ "ami_images" \in cfg.CLEAN /\ ~cfg.DRY_RUN
               /\ \A n \in DOMAIN started :
                      started[n].kind \in KindsOf(Kinds[i]) =>
                          \/ \E m \in DOMAIN resources : resources[m] = started[n]
                          \/ \E j \in DOMAIN calls :
                                 BackingDelete(j) /\ calls[j][2] = started[n].id

\* an active sweep with the volume and snapshot kinds disabled is through: the
\* other ten handlers wrote their counts, the volume is in place, and the snapshot
\* backing the deregistered image is gone
C12_Witness ==
    /\ pc = "return" /\ ~cfg.DRY_RUN /\ failing = {}
    /\ cfg.CLEAN = KindSet \ {"ebs_volumes", "ebs_snapshots"}
    /\ DOMAIN summary.resources_found = cfg.CLEAN
    /\ \E m \in DOMAIN resources : resources[m].kind = "volume"
    /\ ~\E m \in DOMAIN resources : resources[m].kind = "snapshot"
    /\ \E j \in DOMAIN calls : BackingDelete(j)

PublishCalls == {j \in DOMAIN calls : calls[j][1] = "publish"}

\* the handler at position i has completed (written its counts) or aborted
Finished(i) == Kinds[i] \in DOMAIN summary.resources_found \/ HandlerErrors(i) # {}

\* C13: a sweep makes at most one publish call, as its last provider call, after
\* every enabled kind handler has completed or aborted; with no topic configured
\* it makes none and nothing reaches a topic, with a topic configured it has made
\* exactly one by the time it returns.
C13_NotifiedOnceAtEnd ==
    /\ Cardinality(PublishCalls) <= 1
    /\ \A j \in PublishCalls :
           /\ j = Len(calls)
           /\ pc \in {"return", "idle"}
           /\ \A i \in DOMAIN Kinds : Kinds[i] \in cfg.CLEAN => Finished(i)
    /\ ~cfg.SNS_TOPIC_ARN => (PublishCalls = {} /\ outbox = <<>>)
    /\ (cfg.SNS_TOPIC_ARN /\ pc = "return") => Cardinality(PublishCalls) = 1
    /\ Len(outbox) <= invocations

\* a sweep with a topic has published once, after some handlers completed and
\* others aborted
C13_Witness ==
    /\ pc = "return" /\ cfg.SNS_TOPIC_ARN
    /\ PublishCalls = {Len(calls)}
    /\ Len(outbox) = 1
    /\ \E i, j \in DOMAIN Kinds :
           Kinds[i] \in DOMAIN summary.resources_found /\ HandlerErrors(j) # {}

\* C14: the message published lists the first 10 entries of summary.errors, in
\* order, or all of them when there are fewer; the summary and the returned result
\* keep every error; the message has a 'Resources Deleted' section exactly when
\* the sweep was not a dry run.
C14_MessageShowsFirstTenErrors ==
    \A n \in DOMAIN outbox :
        LET m == outbox[n]
            shown == IF Len(summary.errors) < 10 THEN Len(summary.errors) ELSE 10
        IN /\ Len(m.errors) = shown
           /\ \A j \in 1..shown : m.errors[j] = summary.errors[j]
           /\ m.deleted_section = ~cfg.DRY_RUN
           /\ cfg.DRY_RUN => m.deleted = <<>>
           /\ \A k \in DOMAIN returned :
                  /\ returned[k].summary.errors = summary.errors
                  /\ Len(returned[k].summary.errors) >= Len(m.errors)

\* a sweep in which all twelve handlers aborted has returned twelve errors and
\* published a message that lists ten
C14_Witness ==
    /\ Len(returned) = 1 /\ Len(outbox) = 1
    /\ Len(returned[1].summary.errors) = 12
    /\ Len(outbox[1].errors) = 10

OccupiedKinds == {"volume", "address", "sg", "bucket", "loggroup", "snapshot"}

Free(r, w) == ~InUse(r, w)

\* the call at position j of the log was made after the image handler began
ByImageHandler(j) == \E i \in 1..(j - 1) : calls[i][1] = "describe_images"

\* C15: a record in active use (an attached volume, an associated address, a
\* security group on a network interface or named default, a bucket with an object,
\* a log group with a stream, a snapshot created for an image) is never counted in
\* resources_found and the handler of its kind never issues a delete call for it,
\* whatever its age and whether or not it is whitelisted.
C15_InUseNeverReclaimed ==
    /\ \A n \in DOMAIN started, j \in DOMAIN calls :
           (/\ started[n].kind \in OccupiedKinds
            /\ InUse(started[n], started)
            /\ DeletesRecord(calls[j], started[n]))
               => started[n].kind = "snapshot" /\ ByImageHandler(j)
    /\ \A key \in DOMAIN summary.resources_found :
           summary.resources_found[key] <= UnitsIn(Free, key, started, Len(started))

\* an active sweep is through that kept an old, non-whitelisted record in active use
\* and deleted its sibling
C15_Witness ==
    /\ ~cfg.DRY_RUN /\ pc = "return" /\ summary.errors = <<>>
    /\ \E n \in DOMAIN started, key \in DOMAIN summary.resources_deleted :
           /\ started[n].kind \in OccupiedKinds \cap KindsOf(key)
           /\ InUse(started[n], started)
           /\ ~Whitelisted(started[n]) /\ started[n].ts = Old
           /\ summary.resources_deleted[key] = 1
           /\ \E i \in DOMAIN resources : resources[i] = started[n]

Registered(lb) == \E j \in DOMAIN lb.items : lb.items[j].n > 0

Healthy(lb) == \E j \in DOMAIN lb.items : lb.items[j].healthy > 0

\* the load-balancer handler is over, the load balancer it listed first is not
\* whitelisted and old enough, and every call that describes it was answered
Examined(lb) ==
    /\ Done(4) /\ lb.kind = "lb"
    /\ ~is_whitelisted(lb.name, {}) /\ lb.ts = Old
    /\ \A c \in failing : c[1] \notin {"describe_load_balancers", "describe_target_groups",
                                       "describe_target_health"}

\* the load balancer is among the load balancers found, and in active mode its
\* delete call was issued
Counted(lb) ==
    /\ summary.resources_found["load_balancers"] = Len(started)
    /\ ~cfg.DRY_RUN => /\ Issued("delete_load_balancer", lb.id)
                       /\ summary.resources_deleted["load_balancers"] = Len(started)

\* the siblings are found, the load balancer is not, and no delete call names it
Retained(lb) ==
    /\ summary.resources_found["load_balancers"] = Len(started) - 1
    /\ ~Issued("delete_load_balancer", lb.id)
    /\ \E i \in DOMAIN resources : resources[i] = lb

\* C16 as stated: a non-whitelisted load balancer at least as old as the threshold
\* with no healthy target in any target group is counted (and deleted in active
\* mode); the same load balancer with a healthy target is retained.
C16_NoHealthyTargetReclaimed ==
    (started # <<>> /\ Examined(started[1])) =>
        IF Healthy(started[1]) THEN Retained(started[1]) ELSE Counted(started[1])

\* C16: a non-whitelisted load balancer at least as old as the threshold with no
\* registered target in any target group is counted (and its delete call issued in
\* active mode); with a registered target of any health in some target group it is
\* retained.
C16_NoRegisteredTargetReclaimed ==
    (started # <<>> /\ Examined(started[1])) =>
        IF Registered(started[1]) THEN Retained(started[1]) ELSE Counted(started[1])

\* an active sweep is through that retained an old, non-whitelisted load balancer
\* whose only registered target is unhealthy, and deleted its sibling
C16_Witness ==
    /\ ~cfg.DRY_RUN /\ pc = "return" /\ failing = {}
    /\ Len(started) = 2 /\ Examined(started[1])
    /\ Registered(started[1]) /\ ~Healthy(started[1])
    /\ Retained(started[1])
    /\ Issued("delete_load_balancer", started[2].id)

\* the addresses of the backing state that are unassociated and not whitelisted
FreeAddresses ==
    { n \in DOMAIN started : /\ started[n].kind = "address" /\ ~started[n].busy
                             /\ ~Whitelisted(started[n]) }

\* C17: estimated_monthly_savings (in cents) is never negative and is the sum, over
\* the handlers that wrote their counts, of the kind's unit price times its found
\* quantity (GB for volumes and snapshots, records for addresses, load balancers,
\* NAT gateways, database snapshots and images, nothing for the other kinds); each
\* unassociated, non-whitelisted address adds exactly the per-address rate.
C17_SavingsArePriced ==
    /\ summary.estimated_monthly_savings >= 0
    /\ summary.estimated_monthly_savings = Priced(Len(Kinds))
    /\ (pc = After(3) /\ "elastic_ips" \in DOMAIN summary.resources_found) =>
           summary.estimated_monthly_savings
               = Priced(2) + EipCents * Cardinality(FreeAddresses)

\* a sweep is through in which every handler wrote its counts: of two addresses the
\* unassociated one was found and priced
C17_Witness ==
    /\ pc = "return" /\ summary.errors = <<>>
    /\ \E n \in DOMAIN started : started[n].kind = "address" /\ started[n].busy
    /\ Cardinality(FreeAddresses) = 1
    /\ summary.resources_found["elastic_ips"] = 1
    /\ summary.estimated_monthly_savings
           = Priced(2) + EipCents + LoadBalancerCents + NatCents + 2 * RdsSnapshotCents + AmiCents

\* the images of the backing state whose deregister call the provider accepts
Deregistered(n) ==
    started[n].kind = "image" /\ <<"deregister_image", started[n].id>> \notin failing

\* the snapshot deletes owed to snapshot s by the first i records of the backing state
RECURSIVE SnapshotDeletes(_, _)
SnapshotDeletes(s, i) ==
    IF i = 0 THEN 0
    ELSE SnapshotDeletes(s, i - 1) + (IF Deregistered(i) THEN Times(started[i].refs, s) ELSE 0)

\* the last deregister call before position j of the call log, 0 when there is none
LastDeregister(j) ==
    LET before == { k \in 1..(j - 1) : calls[k][1] = "deregister_image" }
    IN IF before = {} THEN 0 ELSE CHOOSE k \in before : \A l \in before : l <= k

\* C18: in an active sweep the delete calls for an image's backing snapshots are
\* issued only after that image's deregister call succeeded; a snapshot delete that
\* fails adds nothing to errors and stops neither the remaining snapshot deletes nor
\* the later images; a deregister call that fails adds exactly one error and no
\* snapshot delete is attempted for its image.
C18_BackingSnapshotsBestEffort ==
    ~cfg.DRY_RUN =>
        /\ \A j \in DOMAIN calls :
               calls[j][1] = "delete_snapshot" =>
                   /\ LastDeregister(j) > 0
                   /\ \E n \in DOMAIN started :
                          /\ Deregistered(n)
                          /\ calls[LastDeregister(j)][2] = started[n].id
                          /\ \E k \in DOMAIN started[n].refs : started[n].refs[k] = calls[j][2]
        /\ Done(7) =>
               /\ \A n \in DOMAIN started :
                      started[n].kind = "image" =>
                          /\ Times(CallPairs, <<"deregister_image", started[n].id>>) = 1
                          /\ Times(summary.errors, <<"Failed to deregister AMI", started[n].id>>)
                                 = IF Deregistered(n) THEN 0 ELSE 1
               /\ \A n \in DOMAIN started :
                      started[n].kind = "snapshot" =>
                          Times(CallPairs, <<"delete_snapshot", started[n].id>>)
                              = SnapshotDeletes(started[n].id, Len(started))
               /\ Len(summary.errors)
                      = Cardinality({n \in DOMAIN started :
                                        started[n].kind = "image" /\ ~Deregistered(n)})
               /\ summary.resources_found["ami_images"]
                      = Cardinality({n \in DOMAIN started : started[n].kind = "image"})

\* an active sweep is through: the first image was deregistered, the delete of its
\* first snapshot failed and that of its second was issued; the deregister call of
\* the second image failed, leaving one error
C18_Witness ==
    /\ ~cfg.DRY_RUN /\ pc = "return"
    /\ Len(started) = 4 /\ Len(started[1].refs) = 2 /\ Len(started[2].refs) = 2
    /\ failing = { <<"delete_snapshot", started[1].refs[1]>>,
                   <<"deregister_image", started[2].id>> }
    /\ Times(CallPairs, <<"delete_snapshot", started[1].refs[2]>>) = 1
    /\ Len(summary.errors) = 1

\* the positions in a version listing of $LATEST and of the LAMBDA_KEEP versions
\* with the highest revisions
Protected(versions) ==
    { j \in DOMAIN versions :
        \/ versions[j].id = LatestVersion
        \/ Cardinality({k \in DOMAIN versions : versions[k].n > versions[j].n}) < LAMBDA_KEEP }

\* the versions outside Protected of the functions among the first i records
RECURSIVE Unprotected(_)
Unprotected(i) ==
    IF i = 0 THEN 0
    ELSE Unprotected(i - 1)
         + (IF started[i].kind = "function"
            THEN Len(started[i].items) - Cardinality(Protected(started[i].items)) ELSE 0)

\* C19: for every function and every length of its version listing, also a listing
\* of fewer than three versions, the handler issues no delete call for $LATEST or for
\* one of the three most recent versions, these stay in the backing state, and
\* resources_found counts none of them.
C19_RecentVersionsKept ==
    /\ \A n \in DOMAIN started :
           started[n].kind = "function" =>
               \A j \in Protected(started[n].items) :
                   /\ ~Issued("delete_function",
                              started[n].id \o <<":">> \o started[n].items[j].id)
                   /\ HasVersion([resources |-> resources], started[n].id,
                                 started[n].items[j].id)
    /\ "lambda_versions" \in DOMAIN summary.resources_found =>
           summary.resources_found["lambda_versions"] <= Unprotected(Len(started))

\* an active sweep is through over a function with $LATEST and MaxVersions published
\* versions: all but the three most recent were deleted and counted
C19_Witness ==
    /\ ~cfg.DRY_RUN /\ pc = "return" /\ invocations = 1 /\ failing = {}
    /\ Len(started) = 1 /\ started[1].items = Published(MaxVersions)
    /\ ~Whitelisted(started[1])
    /\ summary.resources_found["lambda_versions"] = MaxVersions - LAMBDA_KEEP
    /\ Len(resources[1].items) = LAMBDA_KEEP + 1

\* no delete call of the returned sweep failed: the provider rejects none, no error
\* names a failed delete, and no image has a backing snapshot whose delete could
\* fail unrecorded
DeletesSucceeded(run) ==
    /\ failing = {}
    /\ \A j \in DOMAIN run.summary.errors :
           \E i \in DOMAIN HandlerError : run.summary.errors[j][1] = HandlerError[i]
    /\ \A n \in DOMAIN run.before : run.before[n].refs = <<>>

\* C20: after an active sweep in which every delete call succeeded, a second sweep
\* over the backing state it left issues no delete call, reports resources_found[k]
\* = 0 for every kind k, and records no error.
C20_RerunFindsNothing ==
    (~cfg.DRY_RUN /\ Len(returned) = 2 /\ DeletesSucceeded(returned[1])) =>
        /\ returned[2].before = returned[1].after
        /\ \A j \in DOMAIN returned[2].calls : returned[2].calls[j][1] \notin DeleteOps
        /\ \A k \in KindSet :
               /\ k \in DOMAIN returned[2].summary.resources_found
               /\ returned[2].summary.resources_found[k] = 0
        /\ returned[2].summary.errors = <<>>

\* the kind handler of a summary key
HandlerOf(key, env) ==
    CASE key = "ebs_volumes" -> cleanup_ebs_volumes(env)
      [] key = "ebs_snapshots" -> cleanup_ebs_snapshots(env)
      [] key = "elastic_ips" -> cleanup_elastic_ips(env)
      [] key = "load_balancers" -> cleanup_load_balancers(env)
      [] key = "nat_gateways" -> cleanup_nat_gateways(env)
      [] key = "rds_snapshots" -> cleanup_rds_snapshots(env)
      [] key = "ami_images" -> cleanup_ami_images(env)
      [] key = "ecr_images" -> cleanup_ecr_images(env)
      [] key = "cloudwatch_logs" -> cleanup_cloudwatch_logs(env)
      [] key = "s3_buckets" -> cleanup_empty_s3_buckets(env)
      [] key = "security_groups" -> cleanup_security_groups(env)
      [] key = "lambda_versions" -> cleanup_old_lambda_versions(env)

\* the handlers of order run one after another from position i on
RECURSIVE RunIn(_, _, _)
RunIn(order, i, env) ==
    IF i > Len(order) THEN env ELSE RunIn(order, i + 1, HandlerOf(order[i], env))

\* the orders in which the enabled handlers can be run
Orders ==
    LET enabled == { k \in KindSet : CLEAN(k) }
    IN { order \in [1..Cardinality(enabled) -> enabled] :
           \A i, j \in DOMAIN order : order[i] = order[j] => i = j }

\* what the sweep in progress would have in its summary had it run its handlers in
\* the given order
Reordered(order) ==
    RunIn(order, 1,
          [summary |-> [timestamp |-> invocations, dry_run |-> DRY_RUN,
                        resources_found |-> [k \in {} |-> 0],
                        resources_deleted |-> [k \in {} |-> 0],
                        estimated_monthly_savings |-> 0, errors |-> <<>>],
           resources |-> started, calls |-> <<>>, escaped |-> <<>>]).summary

SameCounts(a, b) ==
    /\ a.resources_found = b.resources_found
    /\ a.resources_deleted = b.resources_deleted
    /\ a.estimated_monthly_savings = b.estimated_monthly_savings

\* a snapshot the snapshot handler selects is also a backing snapshot of an image
\* the image handler deregisters
SharedSnapshot ==
    \E n, m \in DOMAIN started :
        /\ started[n].kind = "image" /\ Reclaimable(started[n], started)
        /\ <<"deregister_image", started[n].id>> \notin failing
        /\ started[m].kind = "snapshot" /\ Reclaimable(started[m], started)
        /\ \E j \in DOMAIN started[n].refs : started[n].refs[j] = started[m].id

\* C21 as stated: whatever the order in which the enabled handlers are run, the
\* found and deleted counts and the savings are those of the code's order, in
\* dry-run and in active mode, also when an image's backing snapshot is visible to
\* the snapshot handler.
C21_OrderImmaterial ==
    pc = "notify" => \A order \in Orders : SameCounts(Reordered(order), summary)

\* C21: in dry-run mode the order of the enabled handlers does not change the
\* counts or the savings; in active mode it does not either, unless the snapshot
\* and image handlers are both enabled and a snapshot the snapshot handler selects
\* backs an image the image handler deregisters.
C21_OrderImmaterialUnlessShared ==
    (/\ pc = "notify"
     /\ \/ cfg.DRY_RUN
        \/ ~SharedSnapshot
        \/ ~(CLEAN("ebs_snapshots") /\ CLEAN("ami_images"))) =>
        \A order \in Orders : SameCounts(Reordered(order), summary)

\* an active sweep with three handlers enabled, the snapshot and image handlers
\* among them, is over: the image was deregistered and its backing snapshot, created
\* by CreateImage, was left to the image handler
C21_Witness ==
    /\ pc = "notify" /\ ~cfg.DRY_RUN /\ failing = {}
    /\ Cardinality(Orders) = 6
    /\ CLEAN("ebs_snapshots") /\ CLEAN("ami_images")
    /\ ~SharedSnapshot
    /\ summary.resources_found["ami_images"] = 1
    /\ \E j \in DOMAIN calls : BackingDelete(j)

\* C22: in an active sweep no handler issues a delete call for a snapshot that is
\* whitelisted by id prefix or by tag key, also when the snapshot backs a
\* reclaimable image that is not whitelisted.
C22_WhitelistedSnapshotKept ==
    ~cfg.DRY_RUN =>
        \A n \in DOMAIN started :
            (started[n].kind = "snapshot" /\ is_whitelisted(started[n].id, started[n].tags)) =>
                /\ ~Issued("delete_snapshot", started[n].id)
                /\ \E i \in DOMAIN resources : resources[i] = started[n]

\* the delete calls the handler at position i has issued for records of its own kind
Attempted(i) ==
    { j \in DOMAIN calls : calls[j][1] \in KindDeletes[i] /\ ~BackingDelete(j) }

\* C23: in active mode every kind with a found count has the same deleted count,
\* whether its delete calls succeeded or failed: for the kinds deleted record by
\* record both are the number of delete calls attempted, for function versions both
\* are the number of delete calls that succeeded.
C23_DeletedEqualsFound ==
    ~cfg.DRY_RUN =>
        \A i \in DOMAIN Kinds :
            Kinds[i] \in DOMAIN summary.resources_found =>
                /\ Kinds[i] \in DOMAIN summary.resources_deleted
                /\ summary.resources_deleted[Kinds[i]] = summary.resources_found[Kinds[i]]
                /\ Kinds[i] \notin {"ecr_images", "lambda_versions"} =>
                       summary.resources_found[Kinds[i]] = Cardinality(Attempted(i))
                /\ Kinds[i] = "lambda_versions" =>
                       summary.resources_found[Kinds[i]]
                           = Cardinality({ j \in Attempted(i) :
                                             <<calls[j][1], calls[j][2]>> \notin failing })

\* an active sweep over two records is through: both deletes were attempted, one
\* failed, and found and deleted are both 2
C23_Witness ==
    /\ ~cfg.DRY_RUN /\ pc = "return" /\ Len(started) = 2
    /\ Len(summary.errors) = 1
    /\ \E k \in DOMAIN summary.resources_found :
           /\ summary.resources_found[k] = 2
           /\ summary.resources_deleted[k] = 2
    /\ \E c \in failing : c[1] \in DeleteOps /\ Issued(c[1], c[2])

\* the records of the handler at position i that lack their timestamp
Malformed(i) ==
    { n \in DOMAIN started :
        started[n].kind \in KindsOf(Kinds[i]) \cap SubscriptKinds /\ started[n].ts.k = "absent" }

\* the handler at position i is over and did not reach the end of its try block
Aborted(i) ==
    /\ Done(i)
    /\ \/ FailedIssued(AbortOps[i]) # {}
       \/ Malformed(i) # {}

\* C24: a kind's found and deleted entries and its savings are written only when
\* its handler reaches the end: a handler that aborts on a failing list call or on
\* a malformed record leaves no entry in either map and adds nothing to the
\* savings, although in active mode the delete calls for the records before the
\* abort were issued; a handler that does not abort writes both entries.
C24_CountsOnlyOnCompletion ==
    /\ summary.estimated_monthly_savings = Priced(Len(Kinds))
    /\ \A i \in DOMAIN Kinds :
           /\ Aborted(i) =>
                  /\ Kinds[i] \notin DOMAIN summary.resources_found
                  /\ Kinds[i] \notin DOMAIN summary.resources_deleted
                  /\ Cardinality(HandlerErrors(i)) = 1
           /\ (Done(i) /\ ~Aborted(i)) =>
                  /\ Kinds[i] \in DOMAIN summary.resources_found
                  /\ Kinds[i] \in DOMAIN summary.resources_deleted
           /\ (Done(i) /\ ~cfg.DRY_RUN) =>
                  \A n \in DOMAIN started :
                      (/\ started[n].kind \in KindsOf(Kinds[i])
                       /\ started[n].ts.k # "absent"
                       /\ \/ FailedIssued(AbortOps[i]) = {}
                          \/ /\ started[n].kind = "dbsnap"
                             /\ failing = { <<"describe_db_cluster_snapshots", <<>>>> }
                       /\ \A m \in Malformed(i) : n < m) =>
                          \A c \in PrimaryDeletes(started[n]) : Issued(c[1], c[2])

\* an active sweep is through whose handler deleted the first record and aborted on
\* the second: one error, no counts, no savings
C24_Witness ==
    /\ ~cfg.DRY_RUN /\ pc = "return" /\ failing = {}
    /\ Len(started) = 2 /\ started[2].ts.k = "absent"
    /\ Len(resources) = 1
    /\ \E c \in PrimaryDeletes(started[1]) : Issued(c[1], c[2])
    /\ Len(summary.errors) = 1
    /\ summary.estimated_monthly_savings = 0
    /\ \E i \in DOMAIN Kinds :
           started[1].kind \in KindsOf(Kinds[i]) /\ Kinds[i] \notin DOMAIN summary.resources_found

\* the entries of a comma-separated list that are not empty
Entries(s) == { split(s)[i] : i \in DOMAIN split(s) } \ { <<>> }

\* C25: with both whitelist variables unset or empty is_whitelisted is false for
\* every name and tag set, the empty name and a tag set holding the empty key
\* included, and the image handler counts every old image; under any setting an
\* empty entry of a list matches nothing: a name or tag set is whitelisted only
\* through a non-empty entry.
C25_EmptyWhitelistMatchesNothing ==
    /\ \A name \in ProbeNames, tags \in ProbeTagSets :
           /\ (Entries(cfg.WHITELIST_PREFIXES) = {} /\ Entries(cfg.WHITELIST_TAGS) = {})
                  => ~is_whitelisted(name, tags)
           /\ is_whitelisted(name, tags) <=>
                  \/ \E p \in Entries(cfg.WHITELIST_PREFIXES) : StartsWith(name, p)
                  \/ \E t \in Entries(cfg.WHITELIST_TAGS) : t \in tags
    /\ (Done(7) /\ Entries(cfg.WHITELIST_PREFIXES) = {} /\ Entries(cfg.WHITELIST_TAGS) = {}) =>
           summary.resources_found["ami_images"] = Len(started)

\* a sweep with both variables unset is through: the image with the empty name and
\* the empty tag key was found
C25_Witness ==
    /\ pc = "return" /\ cfg.WHITELIST_PREFIXES = <<>> /\ cfg.WHITELIST_TAGS = <<>>
    /\ started[1].name = <<>> /\ <<>> \in started[1].tags
    /\ ~is_whitelisted(started[1].name, started[1].tags)
    /\ summary.resources_found["ami_images"] = Len(started)

----------------------------------------------------------------------------
(* The scheduler's fleets, configurations and invocations *)

MaxCapacity == 12
MaxEvents == 3

Web == <<"w", "e", "b">>
Api == <<"a", "p", "i">>
Gone == <<"g", "o", "n", "e">>

Group(id, min, desired, max, tag) ==
    [id |-> id, MinSize |-> min, DesiredCapacity |-> desired, max |-> max, tag |-> tag]

Instance(id, state) == [id |-> id, state |-> state]

Database(id, cluster, state) == [id |-> id, cluster |-> cluster, state |-> state]

\* the scheduler before its first invocation, the cleanup Lambda never invoked
ScheduleInit(f, env, faults, events, n) ==
    /\ CleanupInit(Config(TRUE, FALSE, [prefixes |-> <<>>, tags |-> <<>>]), <<>>, {}, 0)
    /\ fleet = f
    /\ sched = [SchedulerOff EXCEPT !.env = env, !.faults = faults, !.events = events,
                                    !.pending = n, !.before = f]
    /\ optim = OptimizerOff

AsgFaults(name) ==
    { {}, {<<"update_auto_scaling_group", name>>}, {<<"create_or_update_tags", name>>} }

\* one group of any capacity, with or without a capacity saved by an earlier stop,
\* stopped and started up to MaxEvents times
InitRoundTrip ==
    \E d \in 0..MaxCapacity, min \in 0..1,
       tag \in {NoTag, TagOn(str(0))} :
      \E max \in {d, MaxCapacity} :
        /\ min <= d
        /\ d <= max
        /\ ScheduleInit([NoFleet EXCEPT !.groups = <<Group(Web, min, d, max, tag)>>,
                                        !.instances = <<Instance(Api, "running")>>,
                                        !.dbs = <<Database(Api, FALSE, "available")>>],
                        [EC2_INSTANCES |-> <<Api>>, RDS_INSTANCES |-> <<Api>>,
                         ASG_NAMES |-> <<Web>>],
                        AsgFaults(Web), {<<Stop>>, <<Start>>}, MaxEvents)

SpecRoundTrip == InitRoundTrip /\ [][ScheduleNext]_vars

Db == <<"d", "b">>
Aurora == <<"a", "u", "r", "o", "r", "a">>

\* two instances, a database instance and a database cluster, two groups
Estate ==
    [instances |-> <<Instance(Web, "running"), Instance(Api, "stopped")>>,
     dbs |-> <<Database(Db, FALSE, "available"), Database(Aurora, TRUE, "stopped")>>,
     groups |-> <<Group(Web, 1, 2, 4, NoTag), Group(Api, 0, 0, 4, TagOn(str(3)))>>]

EstateTargets ==
    [EC2_INSTANCES |-> <<Web, Api>>, RDS_INSTANCES |-> <<Db, Aurora>>, ASG_NAMES |-> <<Web, Api>>]

\* events without an action field and with action fields in any case, recognised
\* or not
ActionFields ==
    { Stop, Start, <<"S", "T", "A", "R", "T">>, <<"S", "t", "a", "r", "t">>,
      <<"S", "T", "O", "P">>, <<"s", "t", "a", "t", "u", "s">>, <<>>,
      <<"s", "t", "a", "r", "t", "s">>, <<"s", "t", "a", "r">> }

InitDispatch ==
    ScheduleInit(Estate, EstateTargets,
                 { {}, {<<"start_instances", <<>>>>, <<"stop_db_instance", Db>>,
                        <<"update_auto_scaling_group", Api>>} },
                 {<<>>} \cup { <<field>> : field \in ActionFields }, MaxInvocations)

SpecDispatch == InitDispatch /\ [][ScheduleNext]_vars

IsolationTargets ==
    [EC2_INSTANCES |-> <<Web, Gone>>, RDS_INSTANCES |-> <<Db, Gone, Aurora>>,
     ASG_NAMES |-> <<Web, Gone, Api>>]

IsolationFaults ==
    { <<"stop_instances", <<>>>>, <<"describe_db_clusters", Db>>, <<"stop_db_instance", Db>>,
      <<"start_db_instance", Db>>, <<"stop_db_cluster", Aurora>>,
      <<"describe_auto_scaling_groups", Web>>, <<"create_or_update_tags", Web>>,
      <<"update_auto_scaling_group", Web>>, <<"update_auto_scaling_group", Api>> }

\* one invocation over targets of which the second of each kind does not exist,
\* with up to MaxFaults provider calls failing
InitIsolation ==
    \E db \in {"available", "stopped"}, d \in {0, DefaultDesired} :
        ScheduleInit([Estate EXCEPT !.dbs[1].state = db, !.groups[1].DesiredCapacity = d],
                     IsolationTargets, AtMost(IsolationFaults, MaxFaults),
                     {<<Stop>>, <<Start>>}, 1)

SpecIsolation == InitIsolation /\ [][ScheduleNext]_vars

----------------------------------------------------------------------------
(* Saving and restoring the capacity of a scaling group *)

\* the entry of a returned invocation for its only scaling group
AsgEntry(run) == run.results.asg[1]

Stopped(run) == run.action = Stop /\ AsgEntry(run).error = "" /\ AsgEntry(run).status = "stopped"

Started(run) == run.action = Start /\ AsgEntry(run).error = "" /\ AsgEntry(run).status = "started"

\* C26: a successful stop of a group of desired capacity d followed by a successful
\* start leaves the group at desired capacity d again, the stop having saved d in
\* the ScheduledDesiredCapacity tag and scaled the group to 0; a group stopped at
\* capacity 0 is at capacity 0 after the start whether or not the provider accepts
\* the start's MinSize of 1
C26_StopStartRestores ==
    \A i \in 1..(Len(sched.returned) - 1) :
        LET stop == sched.returned[i]
            start == sched.returned[i + 1]
            d == stop.before.groups[1].DesiredCapacity
        IN (Stopped(stop) /\ start.action = Start)
           => /\ stop.after.groups[1].DesiredCapacity = 0
              /\ stop.after.groups[1].tag = TagOn(str(d))
              /\ Started(start) => start.after.groups[1].DesiredCapacity = d
              /\ d = 0 => start.after.groups[1].DesiredCapacity = 0

C26_Witness ==
    \E i \in 1..(Len(sched.returned) - 1) :
        /\ Stopped(sched.returned[i])
        /\ Started(sched.returned[i + 1])
        /\ sched.returned[i].before.groups[1].DesiredCapacity = MaxCapacity
        /\ sched.returned[i].before.groups[1].tag = TagOn(str(0))
        /\ sched.returned[i + 1].after.groups[1].DesiredCapacity = MaxCapacity

\* C27: after one or more consecutive successful stops of a group and then a start
\* the provider has no reason to refuse, the group is back at the desired capacity
\* it had before the first of the stops
C27_RepeatedStopKeepsSaved ==
    \A i \in 1..Len(sched.returned), j \in 1..Len(sched.returned) :
        (/\ i < j
         /\ \A k \in i..(j - 1) : Stopped(sched.returned[k])
         /\ sched.returned[j].action = Start
         /\ sched.returned[j].failing = {})
        => sched.returned[j].after.groups[1].DesiredCapacity
           = sched.returned[i].before.groups[1].DesiredCapacity

----------------------------------------------------------------------------
(* Dispatch on the event's action field *)

\* the action field is the word start in any case
SaysStart(event) ==
    /\ event # <<>>
    /\ Len(event[1]) = 5
    /\ event[1][1] \in {"s", "S"}
    /\ event[1][2] \in {"t", "T"}
    /\ event[1][3] \in {"a", "A"}
    /\ event[1][4] \in {"r", "R"}
    /\ event[1][5] \in {"t", "T"}

StartOps == {"start_instances", "start_db_cluster", "start_db_instance"}
StopOps == {"stop_instances", "stop_db_cluster", "stop_db_instance", "create_or_update_tags"}

Called(run, ops, target) == \E c \in DOMAIN run.calls : run.calls[c][1] \in ops /\ run.calls[c][2] = target

OpsOf(run) == { run.calls[c][1] : c \in DOMAIN run.calls }

Statuses(run) ==
    { run.results.rds[e].status : e \in DOMAIN run.results.rds }
    \cup { run.results.asg[e].status : e \in DOMAIN run.results.asg }
    \cup { run.results.ec2[e].value : e \in DOMAIN run.results.ec2 }

\* C28: the action is the event's action field in lower case, stop when the field is
\* absent; only the word start makes the handler issue start operations, and every
\* other event makes it issue stop operations on all the configured instances,
\* databases and scaling groups
C28_OnlyStartStarts ==
    \A r \in DOMAIN sched.returned :
        LET run == sched.returned[r] IN
        IF SaysStart(run.event)
        THEN /\ run.action = Start
             /\ OpsOf(run) \cap StopOps = {}
             /\ Statuses(run) \cap {"stopped", "stopping"} = {}
             /\ Called(run, {"start_instances"}, sched.env.EC2_INSTANCES)
             /\ \A i \in DOMAIN sched.env.RDS_INSTANCES :
                    Called(run, {"start_db_cluster", "start_db_instance"}, sched.env.RDS_INSTANCES[i])
             /\ \A i \in DOMAIN sched.env.ASG_NAMES :
                    Called(run, {"update_auto_scaling_group"}, sched.env.ASG_NAMES[i])
        ELSE /\ run.action # Start
             /\ run.event = <<>> => run.action = Stop
             /\ OpsOf(run) \cap StartOps = {}
             /\ Statuses(run) \cap {"running", "started", "starting"} = {}
             /\ Called(run, {"stop_instances"}, sched.env.EC2_INSTANCES)
             /\ \A i \in DOMAIN sched.env.RDS_INSTANCES :
                    Called(run, {"stop_db_cluster", "stop_db_instance"}, sched.env.RDS_INSTANCES[i])
             /\ \A i \in DOMAIN sched.env.ASG_NAMES :
                    /\ Called(run, {"create_or_update_tags"}, sched.env.ASG_NAMES[i])
                    /\ Called(run, {"update_auto_scaling_group"}, sched.env.ASG_NAMES[i])

C28_Witness ==
    /\ Len(sched.returned) = 2
    /\ sched.returned[1].event = <<<<"S", "T", "A", "R", "T">>>>
    /\ sched.returned[1].after.groups[1].DesiredCapacity = DefaultDesired
    /\ sched.returned[1].after.groups[2].DesiredCapacity = 3
    /\ sched.returned[2].event = <<<<"s", "t", "a", "t", "u", "s">>>>
    /\ sched.returned[2].after.groups[2].DesiredCapacity = 0
    /\ sched.returned[2].after.instances[1].state = "stopped"

----------------------------------------------------------------------------
(* One result entry per database and per scaling group *)

\* the entries are one per target, in the order of the targets, each a success
\* entry or an error entry
OnePerTarget(entries, targets) ==
    /\ Len(entries) = Len(targets)
    /\ \A i \in DOMAIN targets :
           /\ entries[i].target = targets[i]
           /\ (entries[i].error = "") # (entries[i].status = "")

Described(run, op, targets) ==
    \A i \in DOMAIN targets : \E c \in DOMAIN run.calls : run.calls[c] = <<op, targets[i]>>

\* C29: the result lists for the database identifiers and for the scaling group
\* names hold exactly one entry per configured target, in the order of the targets,
\* each a success or an error entry; a failing provider call or a missing group on
\* one target does not keep the later targets from being handled; and an invocation
\* under way can always take its next step up to the return of its results
C29_OneEntryPerTarget ==
    /\ sched.pc \in {"ec2", "rds", "asg", "return"} => ENABLED ScheduleNext
    /\ sched.pc = "idle" /\ sched.pending = 0 => Len(sched.returned) = 1
    /\ \A r \in DOMAIN sched.returned :
           LET run == sched.returned[r] IN
           /\ OnePerTarget(run.results.rds, sched.env.RDS_INSTANCES)
           /\ OnePerTarget(run.results.asg, sched.env.ASG_NAMES)
           /\ Described(run, "describe_db_clusters", sched.env.RDS_INSTANCES)
           /\ Described(run, "describe_auto_scaling_groups", sched.env.ASG_NAMES)

C29_Witness ==
    \E r \in DOMAIN sched.returned :
        LET run == sched.returned[r] IN
        /\ run.failing = {<<"describe_db_clusters", Db>>, <<"create_or_update_tags", Web>>}
        /\ run.results.rds[1].error = "describe_db_clusters"
        /\ run.results.rds[2].error = "stop_db_instance"
        /\ run.results.rds[3].error = "stop_db_cluster"
        /\ run.results.asg[1].error = "create_or_update_tags"
        /\ run.results.asg[2].error = "ASG not found"
        /\ run.results.asg[3].status = "stopped"

----------------------------------------------------------------------------
(* The optimizer's provider answers *)

Rec(type, amount) == [type |-> type, amount |-> amount]

Purchase(amount, complete) == [amount |-> amount, complete |-> complete]

NotANumber == <<"n", "/", "a">>

OptimizerOps ==
    {"get_cost_and_usage", "get_rightsizing_recommendation", "describe_volumes",
     "describe_addresses", "get_reservation_purchase_recommendation",
     "get_savings_plans_purchase_recommendation", "publish"}

\* one analysis over answers with and without something to report, with up to
\* MaxFaults provider calls failing, with and without a topic
InitOptimizer ==
    \E rightsizing \in { <<>>, <<Rec("Terminate", Amount(str(12)))>>,
                         <<Rec("Modify", Amount(str(7))), Rec("Modify", NoAmount)>>,
                         <<Rec("Modify", Amount(NotANumber))>> },
       volumes \in { <<>>, <<8, 20>> },
       addresses \in { <<>>, <<TRUE, FALSE>> },
       ri \in { <<>>, <<Purchase(Amount(str(12)), TRUE)>>, <<Purchase(Amount(str(12)), FALSE)>> },
       sp \in { <<>>, <<Purchase(Amount(str(30)), TRUE)>> },
       F \in AtMost(OptimizerOps, MaxFaults), topic \in BOOLEAN :
        /\ CleanupInit(Config(TRUE, FALSE, [prefixes |-> <<>>, tags |-> <<>>]), <<>>, {}, 0)
        /\ fleet = NoFleet
        /\ sched = SchedulerOff
        /\ optim = [OptimizerOff EXCEPT
                       !.answers = [rightsizing |-> rightsizing, volumes |-> volumes,
                                    addresses |-> addresses, ri |-> ri, sp |-> sp],
                       !.failing = F, !.topic = topic, !.pending = 1]

SpecOptimizer == InitOptimizer /\ [][OptimizerNext]_vars

----------------------------------------------------------------------------
(* The optimizer's report *)

RECURSIVE SumSavings(_)
SumSavings(opportunities) ==
    IF opportunities = <<>> THEN 0
    ELSE Head(opportunities).monthly_savings + SumSavings(Tail(opportunities))

Types(report) ==
    { report.savings_opportunities[i].type : i \in DOMAIN report.savings_opportunities }

\* the provider calls of each source
SourceOps ==
    [r \in {"EC2 Rightsizing"} |-> {"get_rightsizing_recommendation"}]
    @@ [r \in {"Unused Resources"} |-> {"describe_volumes", "describe_addresses"}]
    @@ [r \in {"Reserved Instances"} |-> {"get_reservation_purchase_recommendation"}]
    @@ [r \in {"Savings Plans"} |-> {"get_savings_plans_purchase_recommendation"}]

\* the source has a provider call that raises, or the provider has nothing for it
FailsOrYieldsNothing(type) ==
    \/ SourceOps[type] \cap optim.failing # {}
    \/ type = "EC2 Rightsizing" /\ optim.answers.rightsizing = <<>>
    \/ type = "Unused Resources" /\ optim.answers.volumes = <<>> /\ optim.answers.addresses = <<>>
    \/ type = "Reserved Instances" /\ optim.answers.ri = <<>>
    \/ type = "Savings Plans" /\ optim.answers.sp = <<>>

\* C30: in every returned result total_potential_savings is the sum of the
\* monthly_savings of the savings_opportunities; a source that fails or yields
\* nothing contributes no entry; and when the cost and usage call fails the result
\* has the error field, no opportunities and a total of 0, and nothing is published
C30_TotalIsSumOfReported ==
    \A r \in DOMAIN optim.returned :
        LET report == optim.returned[r] IN
        /\ report.total_potential_savings = SumSavings(report.savings_opportunities)
        /\ \A type \in DOMAIN SourceOps : FailsOrYieldsNothing(type) => type \notin Types(report)
        /\ "get_cost_and_usage" \in optim.failing
           => /\ report.error # ""
              /\ report.savings_opportunities = <<>>
              /\ report.total_potential_savings = 0
              /\ optim.published = <<>>

====
